---- MODULE Spec2Model ----
(***************************************************************************)
(* Order lifecycle and pricing engine of the POS backend.                  *)
(*                                                                         *)
(* The repository holds two generations of the order controller:          *)
(*   - controllers/vendorStaffController.js lines 656-959 (createOrder,   *)
(*     addItemsToOrder, the list queries, getOrderById, updateStatus),     *)
(*   - controllers/orderController.js (createOrder, getKitchenOrders,      *)
(*     getBillingOrders, getOrderById, updateStatus).                      *)
(* and routes/order.js holds the router of each.  Handlers of the first     *)
(* keep their source names; handlers of the second that differ from the    *)
(* first carry the prefix OC_; createOrder, getKitchenOrders and           *)
(* getOrderById are the same code in both.  The variable deployed says     *)
(* which of the two serves /api/orders.                                    *)
(*                                                                         *)
(* Every handler is an operator from (req.user, request inputs) and the    *)
(* current collections to the pair (response, collection after the         *)
(* handler); one action per handler applies it.                            *)
(*                                                                         *)
(* JavaScript falsy inputs: a number field that is missing and one that is *)
(* 0 take the same branch of every test in these handlers (!x, x > 0), so  *)
(* 0 stands for both; likewise "" for a missing string and <<>> for a      *)
(* missing or empty array.                                                 *)
(***************************************************************************)
EXTENDS Integers, Sequences, FiniteSets, TLC

VARIABLES deployed, orders, menu, resp,
          \* per order and line, the unit price calculateTotalAmount read for the line
          unitPriceAtOrderTime,
          \* the handlers that have read an order and not yet written it
          inflight,
          \* the User collection: one entry per document ever saved, in the order
          \* of the saves; a deleted document keeps its place, marked deleted
          accounts

vars == <<deployed, orders, menu, resp, unitPriceAtOrderTime, inflight, accounts>>

(***************************************************************************)
(* Bounds of the model.                                                    *)
(***************************************************************************)
\* orders the collection may hold
MaxOrders == 1
\* lines one order may hold
MaxItems == 2
\* orders the collection may hold when the queues are watched
MaxQueued == 2
\* accounts the User collection may hold, the deleted ones counted
MaxAccounts == 3

(***************************************************************************)
(* Domain values.                                                          *)
(***************************************************************************)
Statuses == {"Pending", "Kitchen", "Ready", "Served", "Billed", "Completed"}

\* the two tenants
VendorA == "vendorA"
VendorB == "vendorB"

\* req.user as attached by the auth middleware: {id, role, vendorId}.
\* Vendor A has its owner and one member of staff per further role, vendor B a
\* server.  "Manager" is a role the status matrix has no row for.
Users ==
    { [id |-> "ownerA",   role |-> "Vendor",  vendorId |-> VendorA],
      [id |-> "kitchenA", role |-> "Kitchen", vendorId |-> VendorA],
      [id |-> "billingA", role |-> "Billing", vendorId |-> VendorA],
      [id |-> "managerA", role |-> "Manager", vendorId |-> VendorA],
      [id |-> "serverB",  role |-> "Server",  vendorId |-> VendorB] }

\* the two order controllers
VendorStaff == "vendorStaffController"
OrderCtl == "orderController"

\* The callers the route POST /api/orders admits: auth(['Server', 'Vendor']) in the
\* router of vendorStaffController's handlers, all four roles in the other.
CreateCallers(ctl) ==
    IF ctl = VendorStaff
    THEN { u \in Users : u.role \in {"Server", "Vendor"} }
    ELSE { u \in Users : u.role \in {"Server", "Vendor", "Kitchen", "Billing"} }

\* req.params.id: 0 is a string that is no ObjectId, 1..Len(orders) are the
\* stored orders in creation order, larger numbers are well-formed ids of no order.
BadId == 0
OrderIds == BadId .. (MaxOrders + 1)

\* newStatus of a request body: the six statuses, a string outside the enum, ""
StatusInputs == Statuses \cup {"Cancelled", ""}

\* The catalog at start: two dishes of vendor A, one of vendor B.
\* "dishD" is a well-formed id of no menu item.
InitMenu ==
    [m \in {"dishA", "dishB", "dishC"} |->
        CASE m = "dishA" ->
              [vendorId |-> VendorA, price |-> 100, name |-> "Alu", isAvailable |-> TRUE]
          [] m = "dishB" ->
              [vendorId |-> VendorA, price |-> 50, name |-> "Bun", isAvailable |-> TRUE]
          [] m = "dishC" ->
              [vendorId |-> VendorB, price |-> 70, name |-> "Chai", isAvailable |-> TRUE]]

\* A line entry as a client sends it.
Line(m, n, q, t) ==
    [menuItemId |-> m, name |-> n, quantity |-> q, itemTableNumber |-> t]

\* well-formed lines: two of dish A, one of dish B sent with a name of the
\* client's, one of dish C, one of dish D
LineA == Line("dishA", "", 2, 5)
LineB == Line("dishB", "Free", 1, 5)
LineC == Line("dishC", "", 1, 7)
LineD == Line("dishD", "", 1, 5)

\* an element of items that is no line entry: JSON null
NullLine == [null |-> TRUE]

\* lines the per-line validation rejects: no menuItemId, quantity 0, no itemTableNumber
BadLines ==
    { Line("", "", 1, 5), Line("dishA", "", 0, 5), Line("dishA", "", 1, 0) }

\* items / newItems of a request body: empty, one line, two lines (two dishes of
\* one vendor, dishes of two vendors, one dish twice, a rejected second line)
Batches ==
    { <<>>, <<LineA>>, <<LineB>>, <<LineC>>, <<LineD>>,
      <<LineA, LineB>>, <<LineA, LineC>>, <<LineA, LineA>>,
      <<LineB, Line("dishA", "", 0, 5)>> }
    \cup { <<l>> : l \in BadLines }

\* items of the body of POST /api/orders: every batch but the single line of
\* dish B, which reaches an order as an add-on
CreateBatches == Batches \ {<<LineB>>}

\* tableNumber of a request body
TableInputs == {0, 5}

\* Fields a client may add to the body of POST /api/orders.
BodyExtras ==
    { [vendorId |-> VendorA, status |-> "Kitchen", totalAmount |-> 0],
      [vendorId |-> VendorB, status |-> "Completed", totalAmount |-> 1] }

(***************************************************************************)
(* Responses: HTTP status and the message the handler sends.               *)
(***************************************************************************)
Res(s, m) == [status |-> s, msg |-> m]

ResOK == Res(200, "ok")
ResCreated == Res(201, "created")
ResCreateMissing == Res(400, "Order must include table number and at least one item.")
ResCreateInvalidItem == Res(400, "Invalid item data found in the order list.")
ResAddMissing == Res(400, "Must include at least one new item to add.")
ResAddInvalidItem == Res(400, "Invalid item data found in the new items list.")
ResInvalidReference == Res(400, "One or more menu items are invalid or unavailable.")
ResNotFoundShop == Res(404, "Order not found for this shop.")
ResNotFoundCast == Res(404, "Order not found.")
ResNotAuthorized == Res(400, "Invalid status or role not authorized to set status.")
ResCannotAdd == Res(400, "Cannot add items to an already Billed/Completed order.")
ResCannotChange == Res(400, "Cannot change status of an already Billed/Completed order.")
\* no response written: the handler threw outside its try block
ResNone == Res(0, "")
\* the response of the framework's own error handler
ResUncaught == Res(500, "Internal Server Error")
ResReportError == Res(500, "Server error retrieving completed orders")
ResMenuUpdated == Res(200, "Menu item updated successfully.")
ResMenuNoVendor == Res(403, "Vendor/Staff must be linked to a Vendor entity.")
ResMenuRole == Res(403, "Role is unauthorized for this action.")
ResMenuPending == Res(403, "Your account is pending approval by the Vendor owner.")
ResMenuInvalidId == Res(400, "Invalid menu item ID.")
ResMenuValidation == Res(400, "ValidationError")
ResMenuDuplicate == Res(400, "Menu Item name already exists for this vendor.")
ResMenuNotFound == Res(404, "Menu item not found or unauthorized to update.")

\* The error taxonomy of the responses.
Kind(r) ==
    CASE r \in {ResOK, ResCreated} -> "Success"
      [] r \in {ResCreateMissing, ResCreateInvalidItem, ResAddMissing, ResAddInvalidItem}
            -> "InvalidInput"
      [] r = ResInvalidReference -> "InvalidReference"
      [] r \in {ResNotFoundShop, ResNotFoundCast} -> "NotFound"
      [] r = ResNotAuthorized -> "Forbidden"
      [] r \in {ResCannotAdd, ResCannotChange} -> "InvalidState"
      [] r = ResNone -> "None"
      [] OTHER -> "ServerError"

(***************************************************************************)
(* Helpers.                                                                *)
(***************************************************************************)
Range(s) == { s[i] : i \in DOMAIN s }

\* mutant of findOne: the query does not filter by vendorId
findOne_NoVendorFilter(id, vendorId) ==
    IF id \in 1..Len(orders) THEN id ELSE 0

\* Order.findOne({ _id: id, vendorId }): the index of the matching order, 0 for none.
\* (A malformed id makes the query throw; the handlers test that first.)
findOne(id, vendorId) ==
    IF id \in 1..Len(orders) /\ orders[id].vendorId = vendorId THEN id ELSE 0

\* Order.find({ vendorId, status: { $in: statuses } }): matching indices
find(vendorId, statuses) ==
    { i \in 1..Len(orders) : orders[i].vendorId = vendorId /\ orders[i].status \in statuses }

\* { timestamps: true }: only the order of the updatedAt values is kept.  The
\* value of a new write is larger than every stored one; the stored values are
\* then renumbered 1..n in the same order.
now(store) ==
    LET S == { store[i].updatedAt : i \in 1..Len(store) }
    IN  IF S = {} THEN 1 ELSE 1 + (CHOOSE m \in S : \A x \in S : x <= m)

renumber(store) ==
    [i \in 1..Len(store) |->
        [store[i] EXCEPT !.updatedAt =
            1 + Cardinality({ j \in 1..Len(store) : store[j].updatedAt < store[i].updatedAt })]]

\* order.save() of the stored document o changed to doc: a document that was not
\* modified is not written and keeps its updatedAt.
save(o, doc) ==
    IF doc = orders[o] THEN orders
    ELSE renumber([orders EXCEPT ![o] = [doc EXCEPT !.updatedAt = now(orders)]])

\* mutant of saveNew: the new document takes the place of the stored ones
saveNew_Replaces(doc) == <<[doc EXCEPT !.updatedAt = 1]>>

\* newOrder.save()
saveNew(doc) == renumber(Append(orders, [doc EXCEPT !.updatedAt = now(orders)]))

(***************************************************************************)
(* Number: the IEEE 754 double.  A positive double is m * 2^e with m given  *)
(* by its Precision binary digits, the first of them 1; the handlers meet  *)
(* no negative number, infinity or subnormal.  Every operation rounds its  *)
(* exact result to the nearest double, ties to the even one.               *)
(***************************************************************************)
Precision == 53

\* binary digits of a natural number, most significant first; <<>> is 0
RECURSIVE Bits(_)
Bits(n) == IF n = 0 THEN <<>> ELSE Append(Bits(n \div 2), n % 2)

Zeros(k) == [i \in 1..k |-> 0]

\* without leading zeros
Strip(b) ==
    IF \A i \in 1..Len(b) : b[i] = 0 THEN <<>>
    ELSE SubSeq(b, CHOOSE i \in 1..Len(b) : b[i] = 1 /\ \A j \in 1..(i - 1) : b[j] = 0, Len(b))

\* a + b, digit by digit: a carry enters digit i when some digit below it
\* generates one and every digit between passes it on
bigAdd(a, b) ==
    LET n == IF Len(a) > Len(b) THEN Len(a) ELSE Len(b)
        x == Zeros(n - Len(a)) \o a
        y == Zeros(n - Len(b)) \o b
        carry(i) == \E j \in (i + 1)..n :
                        x[j] + y[j] = 2 /\ \A k \in (i + 1)..(j - 1) : x[k] + y[k] = 1
    IN  (IF carry(0) THEN <<1>> ELSE <<>>)
        \o [i \in 1..n |-> (x[i] + y[i] + (IF carry(i) THEN 1 ELSE 0)) % 2]

RECURSIVE bigMul(_, _)
\* a times the small number q
bigMul(a, q) ==
    IF q = 0 THEN <<>>
    ELSE LET double == bigMul(a, q \div 2) \o <<0>>
         IN  IF q % 2 = 1 THEN bigAdd(double, a) ELSE double

\* digits to the base Limb, for division by a small number
LimbBits == 16
Limb == 2 ^ LimbBits

RECURSIVE divr(_, _, _)
\* quotient and remainder of the limbs 1..i of a divided by the small number d
divr(a, d, i) ==
    IF i = 0 THEN [q |-> <<>>, r |-> 0]
    ELSE LET p == divr(a, d, i - 1)
             t == p.r * Limb + a[i]
         IN  [q |-> Append(p.q, t \div d), r |-> t % d]

\* the binary digits of a sequence of limbs
LimbsToBits(a) ==
    [i \in 1..(LimbBits * Len(a)) |->
        LET x == Bits(a[(i - 1) \div LimbBits + 1])
            k == ((i - 1) % LimbBits) + 1
        IN  IF k <= LimbBits - Len(x) THEN 0 ELSE x[k - (LimbBits - Len(x))]]

Zero == [m |-> <<>>, e |-> 0]

\* the double nearest to bits * 2^e (plus a fraction of 2^e if sticky)
roundToDouble(bits, e, sticky) ==
    LET b == Strip(bits)
    IN  IF b = <<>> THEN Zero
        ELSE IF Len(b) <= Precision
        THEN [m |-> b \o Zeros(Precision - Len(b)), e |-> e - (Precision - Len(b))]
        ELSE LET kept == SubSeq(b, 1, Precision)
                 st == sticky \/ 1 \in Range(SubSeq(b, Precision + 2, Len(b)))
                 up == b[Precision + 1] = 1 /\ (st \/ kept[Precision] = 1)
                 m1 == IF up THEN bigAdd(kept, <<1>>) ELSE kept
                 e1 == e + Len(b) - Precision
             IN  IF Len(m1) > Precision
                 THEN [m |-> SubSeq(m1, 1, Precision), e |-> e1 + 1]
                 ELSE [m |-> m1, e |-> e1]

\* parseFloat / JSON.parse of a decimal literal with two fraction digits, given
\* in hundredths (fewer than Limb): the double nearest to hundredths / 100
parseFloat(hundredths) ==
    LET d == divr(<<hundredths, 0, 0, 0, 0>>, 100, 5)
    IN  roundToDouble(LimbsToBits(d.q), 0 - 4 * LimbBits, d.r # 0)

\* item.quantity * details.price, the quantity a whole number
dblMul(q, y) == roundToDouble(bigMul(y.m, q), y.e, FALSE)

\* total + x
dblAdd(a, b) ==
    IF a = Zero THEN b
    ELSE IF b = Zero THEN a
    ELSE LET e == IF a.e < b.e THEN a.e ELSE b.e
         IN  roundToDouble(bigAdd(a.m \o Zeros(a.e - e), b.m \o Zeros(b.e - e)), e, FALSE)

RECURSIVE reduceDoubles(_, _, _, _)
\* let total = 0; total += quantity * price for lines i..k, in that order
reduceDoubles(items, priceMap, i, k) ==
    IF k < i THEN Zero
    ELSE dblAdd(reduceDoubles(items, priceMap, i, k - 1),
                IF items[k].menuItemId \in DOMAIN priceMap
                THEN dblMul(items[k].quantity, priceMap[items[k].menuItemId].price)
                ELSE Zero)

\* the loop of calculateTotalAmount over prices that are doubles
SumDoubles(items, priceMap, i) == reduceDoubles(items, priceMap, i, Len(items))

(***************************************************************************)
(* calculateTotalAmount                                                    *)
(***************************************************************************)
RECURSIVE SumLines_NoQuantity(_, _, _)
\* mutant of SumLines: the quantity is left out of the product
SumLines_NoQuantity(items, priceMap, i) ==
    IF i > Len(items) THEN 0
    ELSE (IF items[i].menuItemId \in DOMAIN priceMap
            THEN priceMap[items[i].menuItemId].price
            ELSE 0)
         + SumLines_NoQuantity(items, priceMap, i + 1)

RECURSIVE SumLines(_, _, _)
\* items.forEach: total += quantity * price for every line the price map knows
SumLines(items, priceMap, i) ==
    IF i > Len(items) THEN 0
    ELSE (IF items[i].menuItemId \in DOMAIN priceMap
            THEN items[i].quantity * priceMap[items[i].menuItemId].price
            ELSE 0)
         + SumLines(items, priceMap, i + 1)

\* mutant of calculateTotalAmount: no length test, unknown ids are left out of the sum
calculateTotalAmount_SkipsUnknown(items, vendorId) ==
    LET itemIds == [i \in 1..Len(items) |-> items[i].menuItemId]
        menuItems == { m \in DOMAIN menu : m \in Range(itemIds) /\ menu[m].vendorId = vendorId }
        priceMap == [m \in menuItems |-> [price |-> menu[m].price, name |-> menu[m].name]]
    IN  [thrown |-> FALSE,
         total  |-> SumLines(items, priceMap, 1),
         items  |-> [i \in 1..Len(items) |->
                       IF items[i].menuItemId \in DOMAIN priceMap
                       THEN [items[i] EXCEPT !.name = priceMap[items[i].menuItemId].name]
                       ELSE items[i]]]

\* mutant of calculateTotalAmount: a line that came with a name keeps it
calculateTotalAmount_KeepsClientName(items, vendorId) ==
    LET itemIds == [i \in 1..Len(items) |-> items[i].menuItemId]
        menuItems == { m \in DOMAIN menu : m \in Range(itemIds) /\ menu[m].vendorId = vendorId }
        priceMap == [m \in menuItems |-> [price |-> menu[m].price, name |-> menu[m].name]]
    IN  IF Cardinality(menuItems) # Len(itemIds)
        THEN [thrown |-> TRUE, total |-> 0, items |-> items]
        ELSE [thrown |-> FALSE,
              total  |-> SumLines(items, priceMap, 1),
              items  |-> [i \in 1..Len(items) |->
                            IF items[i].menuItemId \in DOMAIN priceMap /\ items[i].name = ""
                            THEN [items[i] EXCEPT !.name = priceMap[items[i].menuItemId].name]
                            ELSE items[i]]]

\* const menuItems = await MenuItem.find({ _id: { $in: itemIds }, vendorId });
\* menuItems.length !== itemIds.length throws.  fractions says which model of
\* Number does the arithmetic of the loop: doubles when the prices have a
\* fraction, the integers when they are whole, where the two agree.
calculateTotalAmountWith(fractions, items, vendorId) ==
    LET itemIds == [i \in 1..Len(items) |-> items[i].menuItemId]
        menuItems == { m \in DOMAIN menu : m \in Range(itemIds) /\ menu[m].vendorId = vendorId }
        priceMap == [m \in menuItems |-> [price |-> menu[m].price, name |-> menu[m].name]]
    IN  IF Cardinality(menuItems) # Len(itemIds)
        THEN [thrown |-> TRUE, total |-> 0, items |-> items]
        ELSE [thrown |-> FALSE,
              total  |-> IF fractions THEN SumDoubles(items, priceMap, 1)
                         ELSE SumLines(items, priceMap, 1),
              items  |-> [i \in 1..Len(items) |->
                            IF items[i].menuItemId \in DOMAIN priceMap
                            THEN [items[i] EXCEPT !.name = priceMap[items[i].menuItemId].name]
                            ELSE items[i]]]

\* with prices and quantities that are whole numbers, which Number holds exactly
calculateTotalAmount(items, vendorId) == calculateTotalAmountWith(FALSE, items, vendorId)

\* calculateTotalAmount with prices that have a fraction
dblCalculateTotalAmount(items, vendorId) ==
    calculateTotalAmountWith(TRUE, items, vendorId)

\* items.every(callback) throws a TypeError: the callback reads item.menuItemId
\* of a null element, which every reaches when all elements before it passed
everyThrows(items) ==
    \E k \in 1..Len(items) :
        /\ items[k] = NullLine
        /\ \A j \in 1..(k - 1) :
              /\ items[j] # NullLine
              /\ items[j].menuItemId # ""
              /\ items[j].quantity > 0
              /\ items[j].itemTableNumber # 0

\* mutant of isValid: itemTableNumber is not tested
isValid_NoItemTable(items) ==
    \A i \in 1..Len(items) : items[i].menuItemId # "" /\ items[i].quantity > 0

\* items.every(item => item.menuItemId && item.quantity > 0 && item.itemTableNumber)
isValid(items) ==
    \A i \in 1..Len(items) :
        items[i].menuItemId # "" /\ items[i].quantity > 0 /\ items[i].itemTableNumber # 0

(***************************************************************************)
(* createOrder                                                             *)
(***************************************************************************)
\* mutant of newOrder: vendorId and status are taken from the request body
newOrder_FromBody(user, body, c) ==
    [tableNumber |-> body.tableNumber,
     items       |-> c.items,
     server      |-> user.id,
     vendorId    |-> body.vendorId,
     totalAmount |-> c.total,
     status      |-> body.status,
     updatedAt   |-> 0]

\* mutant of newOrder: status is left to the schema default
newOrder_SchemaDefault(user, body, c) ==
    [tableNumber |-> body.tableNumber,
     items       |-> c.items,
     server      |-> user.id,
     vendorId    |-> user.vendorId,
     totalAmount |-> c.total,
     status      |-> "Pending",
     updatedAt   |-> 0]

\* new Order({ tableNumber, items, server: serverId, vendorId, totalAmount, status: 'Kitchen' })
newOrder(user, body, c) ==
    [tableNumber |-> body.tableNumber,
     items       |-> c.items,
     server      |-> user.id,
     vendorId    |-> user.vendorId,
     totalAmount |-> c.total,
     status      |-> "Kitchen",
     updatedAt   |-> 0]

createOrderWith(fractions, user, body) ==
    IF body.tableNumber = 0 \/ Len(body.items) = 0
    THEN [res |-> ResCreateMissing, orders |-> orders]
    ELSE IF everyThrows(body.items)
    THEN [res |-> ResNone, orders |-> orders]
    ELSE IF ~isValid(body.items)
    THEN [res |-> ResCreateInvalidItem, orders |-> orders]
    ELSE LET c == IF fractions THEN dblCalculateTotalAmount(body.items, user.vendorId)
                  ELSE calculateTotalAmount(body.items, user.vendorId)
         IN  IF c.thrown
             THEN [res |-> ResInvalidReference, orders |-> orders]
             ELSE [res |-> ResCreated,
                   orders |-> saveNew(newOrder(user, body, c))]

createOrder(user, body) == createOrderWith(FALSE, user, body)

(***************************************************************************)
(* addItemsToOrder                                                         *)
(***************************************************************************)
\* mutant of addLocked: only Completed is tested
addLocked_CompletedOnly(status) == status = "Completed"

\* order.status === 'Completed' || order.status === 'Billed'
\* mutant of addLocked: only Billed orders are closed to add-ons
addLocked_BilledOnly(status) == status = "Billed"

addLocked(status) == status = "Completed" \/ status = "Billed"

\* mutant of addOnTotal: the total of the new lines replaces the running total
addOnTotal_Replaces(totalAmount, newItemsTotal) == newItemsTotal

\* order.totalAmount += newItemsTotal
addOnTotal(totalAmount, newItemsTotal) == totalAmount + newItemsTotal

\* mutant of addOnStatus: the status is left as it is
addOnStatus_Kept(status) == status

\* if (order.status !== 'Kitchen' && order.status !== 'Pending') order.status = 'Kitchen'
addOnStatus(status) ==
    IF status # "Kitchen" /\ status # "Pending" THEN "Kitchen" ELSE status

\* mutant of addItemsToOrder: the total is computed anew over all lines at the
\* prices of the catalog as it is now
addItemsToOrder_RepricesAll(user, id, newItems) ==
    IF Len(newItems) = 0
    THEN [res |-> ResAddMissing, orders |-> orders]
    ELSE IF ~isValid(newItems)
    THEN [res |-> ResAddInvalidItem, orders |-> orders]
    ELSE IF id = BadId
    THEN [res |-> ResNotFoundCast, orders |-> orders]
    ELSE LET o == findOne(id, user.vendorId)
         IN  IF o = 0
             THEN [res |-> ResNotFoundShop, orders |-> orders]
             ELSE IF addLocked(orders[o].status)
             THEN [res |-> ResCannotAdd, orders |-> orders]
             ELSE LET c == calculateTotalAmount(newItems, user.vendorId)
                      all == orders[o].items \o c.items
                  IN  IF c.thrown
                      THEN [res |-> ResInvalidReference, orders |-> orders]
                      ELSE [res |-> ResOK,
                            orders |-> save(o, [orders[o] EXCEPT
                               !.items = all,
                               !.totalAmount = SumLines(all, menu, 1),
                               !.status = addOnStatus(orders[o].status)])]

\* mutant of addItemsToOrder: the prices are resolved before the order is tested
\* for Billed or Completed
addItemsToOrder_ResolvesFirst(user, id, newItems) ==
    IF Len(newItems) = 0
    THEN [res |-> ResAddMissing, orders |-> orders]
    ELSE IF ~isValid(newItems)
    THEN [res |-> ResAddInvalidItem, orders |-> orders]
    ELSE IF id = BadId
    THEN [res |-> ResNotFoundCast, orders |-> orders]
    ELSE LET o == findOne(id, user.vendorId)
             c == calculateTotalAmount(newItems, user.vendorId)
         IN  IF o = 0
             THEN [res |-> ResNotFoundShop, orders |-> orders]
             ELSE IF c.thrown
             THEN [res |-> ResInvalidReference, orders |-> orders]
             ELSE IF addLocked(orders[o].status)
             THEN [res |-> ResCannotAdd, orders |-> orders]
             ELSE [res |-> ResOK,
                   orders |-> save(o, [orders[o] EXCEPT
                      !.items = orders[o].items \o c.items,
                      !.totalAmount = addOnTotal(orders[o].totalAmount, c.total),
                      !.status = addOnStatus(orders[o].status)])]

addItemsToOrderWith(fractions, user, id, newItems) ==
    IF Len(newItems) = 0
    THEN [res |-> ResAddMissing, orders |-> orders]
    ELSE IF everyThrows(newItems)
    THEN [res |-> ResNone, orders |-> orders]
    ELSE IF ~isValid(newItems)
    THEN [res |-> ResAddInvalidItem, orders |-> orders]
    ELSE IF id = BadId
    THEN [res |-> ResNotFoundCast, orders |-> orders]
    ELSE LET o == findOne(id, user.vendorId)
         IN  IF o = 0
             THEN [res |-> ResNotFoundShop, orders |-> orders]
             ELSE IF addLocked(orders[o].status)
             THEN [res |-> ResCannotAdd, orders |-> orders]
             ELSE LET c == IF fractions THEN dblCalculateTotalAmount(newItems, user.vendorId)
                           ELSE calculateTotalAmount(newItems, user.vendorId)
                  IN  IF c.thrown
                      THEN [res |-> ResInvalidReference, orders |-> orders]
                      ELSE [res |-> ResOK,
                            orders |-> save(o, [orders[o] EXCEPT
                               !.items = orders[o].items \o c.items,
                               !.totalAmount =
                                   IF fractions THEN dblAdd(orders[o].totalAmount, c.total)
                                   ELSE addOnTotal(orders[o].totalAmount, c.total),
                               !.status = addOnStatus(orders[o].status)])]

addItemsToOrder(user, id, newItems) ==
    addItemsToOrderWith(FALSE, user, id, newItems)

(***************************************************************************)
(* updateStatus                                                            *)
(***************************************************************************)
\* mutant of allowedTransitions: the Server row also holds Billed
allowedTransitions_ServerBills ==
    [r \in {"Kitchen", "Server", "Billing", "Vendor"} |->
        CASE r = "Kitchen" -> {"Ready"}
          [] r = "Server"  -> {"Served", "Billed"}
          [] r = "Billing" -> {"Billed", "Completed"}
          [] r = "Vendor"  -> {"Pending", "Kitchen", "Ready", "Served", "Billed", "Completed"}]

allowedTransitions ==
    [r \in {"Kitchen", "Server", "Billing", "Vendor"} |->
        CASE r = "Kitchen" -> {"Ready"}
          [] r = "Server"  -> {"Served"}
          [] r = "Billing" -> {"Billed", "Completed"}
          [] r = "Vendor"  -> {"Pending", "Kitchen", "Ready", "Served", "Billed", "Completed"}]

\* allowedTransitions[userRole]?.includes(newStatus)
includesStatus(userRole, newStatus) ==
    userRole \in DOMAIN allowedTransitions /\ newStatus \in allowedTransitions[userRole]

\* mutant of updateStatus: the order is looked up before the matrix is consulted
updateStatus_LookupFirst(user, id, newStatus) ==
    IF id = BadId
    THEN [res |-> ResNotFoundCast, orders |-> orders]
    ELSE LET o == findOne(id, user.vendorId)
         IN  IF o = 0
             THEN [res |-> ResNotFoundShop, orders |-> orders]
             ELSE IF orders[o].status = "Completed" /\ user.role # "Vendor"
             THEN [res |-> ResCannotChange, orders |-> orders]
             ELSE IF newStatus = "" \/ ~includesStatus(user.role, newStatus)
             THEN [res |-> ResNotAuthorized, orders |-> orders]
             ELSE [res |-> ResOK, orders |-> save(o, [orders[o] EXCEPT !.status = newStatus])]

\* vendorStaffController.js
updateStatus(user, id, newStatus) ==
    IF newStatus = "" \/ ~includesStatus(user.role, newStatus)
    THEN [res |-> ResNotAuthorized, orders |-> orders]
    ELSE IF id = BadId
    THEN [res |-> ResNotFoundCast, orders |-> orders]
    ELSE LET o == findOne(id, user.vendorId)
         IN  IF o = 0
             THEN [res |-> ResNotFoundShop, orders |-> orders]
             ELSE IF orders[o].status = "Completed" /\ user.role # "Vendor"
             THEN [res |-> ResCannotChange, orders |-> orders]
             ELSE [res |-> ResOK, orders |-> save(o, [orders[o] EXCEPT !.status = newStatus])]

\* orderController.js
OC_updateStatus(user, id, newStatus) ==
    IF newStatus = "" \/ ~includesStatus(user.role, newStatus)
    THEN [res |-> ResNotAuthorized, orders |-> orders]
    ELSE IF id = BadId
    THEN [res |-> ResNotFoundCast, orders |-> orders]
    ELSE LET o == findOne(id, user.vendorId)
         IN  IF o = 0
             THEN [res |-> ResNotFoundShop, orders |-> orders]
             ELSE IF orders[o].status = "Completed" \/ orders[o].status = "Billed"
             THEN [res |-> ResCannotChange, orders |-> orders]
             ELSE [res |-> ResOK, orders |-> save(o, [orders[o] EXCEPT !.status = newStatus])]

(***************************************************************************)
(* updateMenuItem                                                          *)
(***************************************************************************)
\* req.user.isApproved of the token: the owner and the staff the owner approved
isApproved(user) == user.id \in {"ownerA", "kitchenA", "billingA", "serverB"}

MENU_MANAGEMENT_ROLES == {"Vendor", "Kitchen"}

\* the response of a refused access, ResOK for access granted
checkMenuAccess(user, allowedRoles) ==
    IF user.vendorId = "" THEN ResMenuNoVendor
    ELSE IF user.role \notin allowedRoles THEN ResMenuRole
    ELSE IF user.role # "Vendor" /\ ~isApproved(user) THEN ResMenuPending
    ELSE ResOK

\* req.body of PUT /api/menu/:id: the fields in has are sent
MenuUpdate(has, price, avail, name) ==
    [has |-> has, price |-> price, isAvailable |-> avail, name |-> name]

\* mutant of updateMenuItem: the update runs without the schema's validators
updateMenuItem_NoValidators(user, id, updates) ==
    LET accessCheck == checkMenuAccess(user, MENU_MANAGEMENT_ROLES)
    IN  IF accessCheck # ResOK
        THEN [res |-> accessCheck, menu |-> menu]
        ELSE IF id = ""
        THEN [res |-> ResMenuInvalidId, menu |-> menu]
        ELSE IF id \notin DOMAIN menu \/ menu[id].vendorId # user.vendorId
        THEN [res |-> ResMenuNotFound, menu |-> menu]
        ELSE IF /\ "name" \in updates.has
                /\ \E m \in DOMAIN menu \ {id} :
                      menu[m].vendorId = user.vendorId /\ menu[m].name = updates.name
        THEN [res |-> ResMenuDuplicate, menu |-> menu]
        ELSE [res |-> ResMenuUpdated,
              menu |-> [menu EXCEPT
                 ![id].name = IF "name" \in updates.has THEN updates.name ELSE @,
                 ![id].price = IF "price" \in updates.has THEN updates.price ELSE @,
                 ![id].isAvailable =
                     IF "isAvailable" \in updates.has THEN updates.isAvailable ELSE @]]

\* mutant of updateMenuItem: the filter of the update is { _id: id } alone
updateMenuItem_AnyVendor(user, id, updates) ==
    LET accessCheck == checkMenuAccess(user, MENU_MANAGEMENT_ROLES)
    IN  IF accessCheck # ResOK
        THEN [res |-> accessCheck, menu |-> menu]
        ELSE IF id = ""
        THEN [res |-> ResMenuInvalidId, menu |-> menu]
        ELSE IF "price" \in updates.has /\ updates.price < 0
        THEN [res |-> ResMenuValidation, menu |-> menu]
        ELSE IF id \notin DOMAIN menu
        THEN [res |-> ResMenuNotFound, menu |-> menu]
        ELSE IF /\ "name" \in updates.has
                /\ \E m \in DOMAIN menu \ {id} :
                      menu[m].vendorId = menu[id].vendorId /\ menu[m].name = updates.name
        THEN [res |-> ResMenuDuplicate, menu |-> menu]
        ELSE [res |-> ResMenuUpdated,
              menu |-> [menu EXCEPT
                 ![id].name = IF "name" \in updates.has THEN updates.name ELSE @,
                 ![id].price = IF "price" \in updates.has THEN updates.price ELSE @,
                 ![id].isAvailable =
                     IF "isAvailable" \in updates.has THEN updates.isAvailable ELSE @]]

\* MenuItem.findOneAndUpdate({ _id: id, vendorId }, { $set: updates },
\*                           { new: true, runValidators: true })
updateMenuItem(user, id, updates) ==
    LET accessCheck == checkMenuAccess(user, MENU_MANAGEMENT_ROLES)
    IN  IF accessCheck # ResOK
        THEN [res |-> accessCheck, menu |-> menu]
        ELSE IF id = ""
        THEN [res |-> ResMenuInvalidId, menu |-> menu]
        ELSE IF "price" \in updates.has /\ updates.price < 0
        THEN [res |-> ResMenuValidation, menu |-> menu]
        ELSE IF id \notin DOMAIN menu \/ menu[id].vendorId # user.vendorId
        THEN [res |-> ResMenuNotFound, menu |-> menu]
        ELSE IF /\ "name" \in updates.has
                /\ \E m \in DOMAIN menu \ {id} :
                      menu[m].vendorId = user.vendorId /\ menu[m].name = updates.name
        THEN [res |-> ResMenuDuplicate, menu |-> menu]
        ELSE [res |-> ResMenuUpdated,
              menu |-> [menu EXCEPT
                 ![id].name = IF "name" \in updates.has THEN updates.name ELSE @,
                 ![id].price = IF "price" \in updates.has THEN updates.price ELSE @,
                 ![id].isAvailable =
                     IF "isAvailable" \in updates.has THEN updates.isAvailable ELSE @]]

(***************************************************************************)
(* getOrderById                                                            *)
(***************************************************************************)
getOrderById(user, id) ==
    IF id = BadId
    THEN [res |-> ResNotFoundCast, found |-> 0]
    ELSE LET o == findOne(id, user.vendorId)
         IN  IF o = 0
             THEN [res |-> ResNotFoundShop, found |-> 0]
             ELSE [res |-> ResOK, found |-> o]

(***************************************************************************)
(* The list queries.  A result is the sequence of the matching orders'     *)
(* indices in the order the query sorts them.                              *)
(***************************************************************************)
RECURSIVE SortBy(_, _)
\* the indices of S as a sequence, smallest key first; keys are pairwise distinct
SortBy(S, key) ==
    IF S = {} THEN <<>>
    ELSE LET m == CHOOSE i \in S : \A j \in S : key[i] <= key[j]
         IN  <<m>> \o SortBy(S \ {m}, key)

\* createdAt grows with the index: orders are appended in creation order
createdAtKey == [i \in 1..Len(orders) |-> i]

\* sort({ tableNumber: 1, createdAt: 1 })
tableThenCreatedKey ==
    [i \in 1..Len(orders) |-> orders[i].tableNumber * (Len(orders) + 1) + i]

\* sort({ updatedAt: -1 })
updatedAtDescKey == [i \in 1..Len(orders) |-> 0 - orders[i].updatedAt]

\* mutant of getKitchenOrders: the result is sorted as the billing queue is
getKitchenOrders_ByTable(user) ==
    SortBy(find(user.vendorId, {"Pending", "Kitchen"}), tableThenCreatedKey)

getKitchenOrders(user) ==
    SortBy(find(user.vendorId, {"Pending", "Kitchen"}), createdAtKey)

\* mutant of getBillingOrders: Billed orders are listed too
getBillingOrders_WithBilled(user) ==
    SortBy(find(user.vendorId, {"Ready", "Served", "Billed", "Completed"}), tableThenCreatedKey)

\* vendorStaffController.js
getBillingOrders(user) ==
    SortBy(find(user.vendorId, {"Ready", "Served", "Completed"}), tableThenCreatedKey)

\* orderController.js
OC_getBillingOrders(user) ==
    SortBy(find(user.vendorId, {"Ready", "Served"}), tableThenCreatedKey)

\* req.query.startDate and req.query.endDate: a missing parameter, a string that
\* is no date, or an instant.  The instants are those of the writes: the write
\* that left updatedAt = r happened at instant r.
NoDate == 0
InvalidDate == 0 - 1

\* instants per day: instants 1..TicksPerDay make the first day
TicksPerDay == 2

\* endOfDay.setHours(23, 59, 59, 999): the last instant of the day of endDate
endOfDay(endDate) == ((endDate + TicksPerDay - 1) \div TicksPerDay) * TicksPerDay

\* mutant of updatedAtInRange: the upper bound is endDate itself
updatedAtInRange_ToEndDate(updatedAt, startDate, endDate) ==
    startDate <= updatedAt /\ updatedAt <= endDate

\* query.updatedAt = { $gte: new Date(startDate), $lte: endOfDay }
updatedAtInRange(updatedAt, startDate, endDate) ==
    startDate <= updatedAt /\ updatedAt <= endOfDay(endDate)

RECURSIVE reduceTotalAmount(_, _)
\* orders.reduce((acc, order) => acc + order.totalAmount, 0) over the indices in q
reduceTotalAmount(q, i) ==
    IF i > Len(q) THEN 0 ELSE orders[q[i]].totalAmount + reduceTotalAmount(q, i + 1)

\* totalSales.toFixed(2): the decimal string with two fraction digits, held as
\* the number of hundredths it denotes
toFixed2(n) == n * 100

\* mutant of getCompletedOrders: the query lists Completed orders only
getCompletedOrders_CompletedOnly(user, startDate, endDate) ==
    LET q == SortBy(find(user.vendorId, {"Completed"}), updatedAtDescKey)
    IN  [res |-> ResOK, orders |-> q, count |-> Len(q),
         totalSales |-> toFixed2(reduceTotalAmount(q, 1))]

\* GET /api/orders/completed: the filter applies when both parameters are given;
\* a parameter that is no date makes the query throw
getCompletedOrders(user, startDate, endDate) ==
    LET ranged == startDate # NoDate /\ endDate # NoDate
        all == find(user.vendorId, {"Billed", "Completed"})
        q == SortBy(IF ranged
                    THEN { i \in all : updatedAtInRange(orders[i].updatedAt, startDate, endDate) }
                    ELSE all,
                    updatedAtDescKey)
    IN  IF ranged /\ InvalidDate \in {startDate, endDate}
        THEN [res |-> ResReportError, orders |-> <<>>, count |-> 0, totalSales |-> 0]
        ELSE [res |-> ResOK, orders |-> q, count |-> Len(q),
              totalSales |-> toFixed2(reduceTotalAmount(q, 1))]

(***************************************************************************)
(* The state machine.  Requests do not overlap: a handler runs when no     *)
(* response is pending, and leaves its response in resp until it is sent.  *)
(***************************************************************************)
NoBody == [tableNumber |-> 0, items |-> <<>>, vendorId |-> "", status |-> "", totalAmount |-> 0]
NoUser == [id |-> "", role |-> "", vendorId |-> ""]

\* The request a handler received.
Request(op, user, id, newStatus, body) ==
    [op |-> op, user |-> user, id |-> id, newStatus |-> newStatus, body |-> body]

\* no response pending
Idle ==
    [req |-> Request("none", NoUser, 0, "", NoBody), before |-> <<>>, res |-> ResOK, out |-> <<>>]

\* The response to req: the collection as the request found it, the response
\* sent, and the indices of the orders the response carries.
Handled(req, res, out) == [req |-> req, before |-> orders, res |-> res, out |-> out]

Init ==
    /\ deployed \in {VendorStaff, OrderCtl}
    /\ orders = <<>>
    /\ menu = InitMenu
    /\ resp = Idle
    /\ unitPriceAtOrderTime = <<>>
    /\ inflight = <<>>
    /\ accounts = <<>>

\* What becomes of a handler's result.  The handlers are async functions: when
\* one throws outside its try block, its promise rejects, which the framework
\* either ignores, so that no response is ever written (Express 4), or hands to
\* its error handler, which answers 500 (Express 5).
outcomes(res) == IF res = ResNone THEN {ResNone, ResUncaught} ELSE {res}

\* priceMap[item.menuItemId].price of every line of a batch, as the catalog
\* holds it while the handler runs
PricesRead(items) ==
    [i \in 1..Len(items) |->
        IF items[i].menuItemId \in DOMAIN menu THEN menu[items[i].menuItemId].price ELSE 0]

\* POST /api/orders, with the request drawn from the given inputs, while the
\* collection holds fewer than most orders
PostOrderFrom(users, tables, batches, extras, most) ==
    /\ resp = Idle
    /\ \E user \in users, t \in tables, b \in batches, x \in extras :
        LET body == [tableNumber |-> t, items |-> b, vendorId |-> x.vendorId,
                     status |-> x.status, totalAmount |-> x.totalAmount]
            r == createOrder(user, body)
        IN  /\ Len(r.orders) <= most
            /\ orders' = r.orders
            /\ \E sent \in outcomes(r.res) :
                  resp' = Handled(Request("createOrder", user, 0, "", body), sent,
                                  IF r.res = ResCreated THEN <<Len(r.orders)>> ELSE <<>>)
            /\ unitPriceAtOrderTime' =
                  IF r.res = ResCreated
                  THEN Append(unitPriceAtOrderTime, PricesRead(b))
                  ELSE unitPriceAtOrderTime
            /\ UNCHANGED <<deployed, accounts, menu, inflight>>

\* PUT /api/orders/:id/items, with the request drawn from the given inputs
PutItemsFrom(users, ids, batches) ==
    /\ deployed = VendorStaff
    /\ resp = Idle
    /\ \E user \in users, id \in ids, b \in batches :
        LET r == addItemsToOrder(user, id, b)
        IN  /\ \A i \in 1..Len(r.orders) : Len(r.orders[i].items) <= MaxItems
            /\ orders' = r.orders
            /\ \E sent \in outcomes(r.res) :
                  resp' = Handled(Request("addItemsToOrder", user, id, "",
                                          [NoBody EXCEPT !.items = b]),
                                  sent, IF r.res = ResOK THEN <<id>> ELSE <<>>)
            /\ unitPriceAtOrderTime' =
                  IF r.res = ResOK
                  THEN [unitPriceAtOrderTime EXCEPT ![id] = @ \o PricesRead(b)]
                  ELSE unitPriceAtOrderTime
            /\ UNCHANGED <<deployed, accounts, menu, inflight>>

\* PUT /api/orders/:id/status, vendorStaffController.js, with the request drawn
\* from the given inputs
PutStatusFrom(users, ids, statuses) ==
    /\ deployed = VendorStaff
    /\ resp = Idle
    /\ \E user \in users, id \in ids, s \in statuses :
        LET r == updateStatus(user, id, s)
        IN  /\ orders' = r.orders
            /\ resp' = Handled(Request("updateStatus", user, id, s, NoBody),
                               r.res, IF r.res = ResOK THEN <<id>> ELSE <<>>)
            /\ UNCHANGED <<deployed, accounts, menu, unitPriceAtOrderTime, inflight>>

\* POST /api/orders
PostOrder ==
    PostOrderFrom(CreateCallers(deployed), TableInputs, CreateBatches, BodyExtras, MaxOrders)

\* PUT /api/orders/:id/items
PutItems == PutItemsFrom(Users, OrderIds, Batches)

\* PUT /api/orders/:id/status, vendorStaffController.js
PutStatus == PutStatusFrom(Users, OrderIds, StatusInputs)

\* PUT /api/orders/:id/status, orderController.js
OC_PutStatus ==
    /\ deployed = OrderCtl
    /\ resp = Idle
    /\ \E user \in Users, id \in OrderIds, s \in StatusInputs :
        LET r == OC_updateStatus(user, id, s)
        IN  /\ orders' = r.orders
            /\ resp' = Handled(Request("OC_updateStatus", user, id, s, NoBody),
                               r.res, IF r.res = ResOK THEN <<id>> ELSE <<>>)
            /\ UNCHANGED <<deployed, accounts, menu, unitPriceAtOrderTime, inflight>>

\* GET /api/orders/:id
GetOrderById ==
    /\ resp = Idle
    /\ \E user \in Users, id \in OrderIds :
        LET r == getOrderById(user, id)
        IN  /\ resp' = Handled(Request("getOrderById", user, id, "", NoBody), r.res,
                               IF r.found = 0 THEN <<>> ELSE <<r.found>>)
            /\ UNCHANGED <<deployed, accounts, orders, menu, unitPriceAtOrderTime, inflight>>

\* GET /api/orders/kitchen, with the caller drawn from users
GetKitchenFrom(users) ==
    /\ resp = Idle
    /\ \E user \in users :
        /\ resp' = Handled(Request("getKitchenOrders", user, 0, "", NoBody), ResOK,
                           getKitchenOrders(user))
        /\ UNCHANGED <<deployed, accounts, orders, menu, unitPriceAtOrderTime, inflight>>

\* GET /api/orders/billing, vendorStaffController.js, with the caller drawn from users
GetBillingFrom(users) ==
    /\ deployed = VendorStaff
    /\ resp = Idle
    /\ \E user \in users :
        /\ resp' = Handled(Request("getBillingOrders", user, 0, "", NoBody), ResOK,
                           getBillingOrders(user))
        /\ UNCHANGED <<deployed, accounts, orders, menu, unitPriceAtOrderTime, inflight>>

\* GET /api/orders/billing, orderController.js, with the caller drawn from users
OC_GetBillingFrom(users) ==
    /\ deployed = OrderCtl
    /\ resp = Idle
    /\ \E user \in users :
        /\ resp' = Handled(Request("OC_getBillingOrders", user, 0, "", NoBody), ResOK,
                           OC_getBillingOrders(user))
        /\ UNCHANGED <<deployed, accounts, orders, menu, unitPriceAtOrderTime, inflight>>

\* GET /api/orders/kitchen
GetKitchen == GetKitchenFrom(Users)

\* GET /api/orders/billing, vendorStaffController.js
GetBilling == GetBillingFrom(Users)

\* GET /api/orders/billing, orderController.js
OC_GetBilling == OC_GetBillingFrom(Users)

\* The response of the reporting query: the response of a list query with the
\* query parameters received and the two aggregates sent.
Reported(user, startDate, endDate, r) ==
    [req |-> Request("getCompletedOrders", user, 0, "", NoBody),
     query |-> [startDate |-> startDate, endDate |-> endDate],
     before |-> orders, res |-> r.res, out |-> r.orders,
     count |-> r.count, totalSales |-> r.totalSales]

\* GET /api/orders/completed, with the request drawn from the given inputs
GetCompletedFrom(users, startDates, endDates) ==
    /\ deployed = VendorStaff
    /\ resp = Idle
    /\ \E user \in users, startDate \in startDates, endDate \in endDates :
        /\ resp' = Reported(user, startDate, endDate,
                            getCompletedOrders(user, startDate, endDate))
        /\ UNCHANGED <<deployed, accounts, orders, menu, unitPriceAtOrderTime, inflight>>

\* GET /api/orders/completed, without query parameters
GetCompleted == GetCompletedFrom(Users, {NoDate}, {NoDate})

\* The pending response leaves the server.
Send ==
    /\ resp # Idle
    /\ resp.res # ResNone
    /\ resp' = Idle
    /\ UNCHANGED <<deployed, accounts, orders, menu, unitPriceAtOrderTime, inflight>>

\* The client of a request that is never answered gives up.
GiveUp ==
    /\ resp # Idle
    /\ resp.res = ResNone
    /\ resp' = Idle
    /\ UNCHANGED <<deployed, accounts, orders, menu, unitPriceAtOrderTime, inflight>>

Next ==
    \/ PostOrder
    \/ PutItems
    \/ PutStatus
    \/ OC_PutStatus
    \/ GetOrderById
    \/ GetKitchen
    \/ GetBilling
    \/ OC_GetBilling
    \/ GetCompleted
    \/ Send

Spec == Init /\ [][Next]_vars

(***************************************************************************)
(* The shop of vendor A with its catalog edited while orders are open.     *)
(***************************************************************************)
OwnerA == [id |-> "ownerA", role |-> "Vendor", vendorId |-> VendorA]
KitchenA == [id |-> "kitchenA", role |-> "Kitchen", vendorId |-> VendorA]
ServerB == [id |-> "serverB", role |-> "Server", vendorId |-> VendorB]

\* req.body of PUT /api/menu/:id: a new price, a price the schema refuses,
\* the dish taken off the menu, a new name, the name of another dish of the shop
MenuUpdates ==
    { MenuUpdate({"price"}, 120, TRUE, ""),
      MenuUpdate({"price"}, -5, TRUE, ""),
      MenuUpdate({"isAvailable"}, 0, FALSE, ""),
      MenuUpdate({"name"}, 0, TRUE, "Aloo"),
      MenuUpdate({"name"}, 0, TRUE, "Bun") }

\* PUT /api/menu/:id
PutMenuItem ==
    /\ resp = Idle
    /\ \E user \in {OwnerA, KitchenA, ServerB}, id \in {"dishA", "dishC"},
          updates \in MenuUpdates :
        LET r == updateMenuItem(user, id, updates)
        IN  /\ menu' = r.menu
            /\ resp' = Handled(Request("updateMenuItem", user, 0, id, NoBody), r.res, <<>>)
            /\ UNCHANGED <<deployed, accounts, orders, unitPriceAtOrderTime, inflight>>

CatalogInit ==
    /\ deployed = VendorStaff
    /\ orders = <<>>
    /\ menu = InitMenu
    /\ resp = Idle
    /\ unitPriceAtOrderTime = <<>>
    /\ inflight = <<>>
    /\ accounts = <<>>

CatalogNext ==
    \/ PostOrderFrom({OwnerA}, {5}, {<<LineA>>, <<LineB>>, <<LineA, LineB>>}, BodyExtras,
                     MaxOrders)
    \/ PutItemsFrom({OwnerA}, {1}, {<<LineA>>, <<LineB>>})
    \/ PutStatusFrom({OwnerA}, {1}, {"Served", "Billed"})
    \/ PutMenuItem
    \/ Send

SpecCatalog == CatalogInit /\ [][CatalogNext]_vars

(***************************************************************************)
(* The shop of vendor A with requests whose numbers have either sign.      *)
(***************************************************************************)
\* tableNumber, quantity and itemTableNumber of a request: negative, missing or
\* zero, positive
SignedTables == {-1, 0, 5}
SignedQuantities == {-1, 0, 1}

\* one line of dish A
SignedBatches ==
    { <<Line("dishA", "", q, t)>> : q \in SignedQuantities, t \in SignedTables }

SignedNext ==
    \/ PostOrderFrom({OwnerA}, SignedTables, SignedBatches, BodyExtras, MaxOrders)
    \/ PutItemsFrom({OwnerA}, 1..MaxOrders, SignedBatches)
    \/ Send

SpecSigned == CatalogInit /\ [][SignedNext]_vars

(***************************************************************************)
(* The queues of two shops with several orders at tables 3 and 5.          *)
(***************************************************************************)
QueueInit ==
    /\ deployed \in {VendorStaff, OrderCtl}
    /\ orders = <<>>
    /\ menu = InitMenu
    /\ resp = Idle
    /\ unitPriceAtOrderTime = <<>>
    /\ inflight = <<>>
    /\ accounts = <<>>

\* PUT /api/orders/:id/status, orderController.js, by the owner of vendor A
OC_PutStatusQueued ==
    /\ deployed = OrderCtl
    /\ resp = Idle
    /\ \E id \in 1..MaxQueued, s \in Statuses :
        LET r == OC_updateStatus(OwnerA, id, s)
        IN  /\ orders' = r.orders
            /\ resp' = Handled(Request("OC_updateStatus", OwnerA, id, s, NoBody),
                               r.res, IF r.res = ResOK THEN <<id>> ELSE <<>>)
            /\ UNCHANGED <<deployed, accounts, menu, unitPriceAtOrderTime, inflight>>

QueueNext ==
    \/ PostOrderFrom({OwnerA}, {3, 5}, {<<LineA>>},
                     {[vendorId |-> VendorA, status |-> "Kitchen", totalAmount |-> 0]},
                     MaxQueued)
    \/ PostOrderFrom({ServerB}, {5}, {<<LineC>>},
                     {[vendorId |-> VendorA, status |-> "Kitchen", totalAmount |-> 0]},
                     MaxQueued)
    \/ PutStatusFrom({OwnerA}, 1..MaxQueued, Statuses)
    \/ OC_PutStatusQueued
    \/ PutItemsFrom({OwnerA}, {1}, {<<LineB>>})
    \/ GetKitchenFrom({KitchenA, ServerB})
    \/ GetBillingFrom({KitchenA, ServerB})
    \/ OC_GetBillingFrom({KitchenA, ServerB})
    \/ GetCompletedFrom({OwnerA}, {NoDate}, {NoDate})
    \/ Send

SpecQueues == QueueInit /\ [][QueueNext]_vars

(***************************************************************************)
(* The shop of vendor A with request bodies as JSON allows them: an        *)
(* element of items may be null.                                           *)
(***************************************************************************)
JsonBatches ==
    { <<>>, <<LineA>>, <<LineD>>, <<NullLine>>, <<LineB, NullLine>>,
      <<Line("dishA", "", 0, 5), NullLine>> }

JsonNext ==
    \/ PostOrderFrom({OwnerA, ServerB}, TableInputs, JsonBatches,
                     {[vendorId |-> VendorA, status |-> "Kitchen", totalAmount |-> 0]},
                     MaxOrders)
    \/ PutItemsFrom({OwnerA, ServerB}, OrderIds, JsonBatches)
    \/ PutStatusFrom({OwnerA, KitchenA}, OrderIds, {"Ready", "Billed", ""})
    \/ GetOrderById
    \/ GetKitchenFrom({OwnerA, ServerB})
    \/ GetBillingFrom({OwnerA, ServerB})
    \/ GetCompletedFrom({OwnerA, ServerB}, {NoDate, InvalidDate, 1}, {NoDate, 1})
    \/ Send
    \/ GiveUp

SpecJson == CatalogInit /\ [][JsonNext]_vars

(***************************************************************************)
(* The shop of vendor A with prices that have a fraction.                  *)
(***************************************************************************)
\* prices as the owner enters them, in hundredths: 0.10, 0.20, 1.10, 2.50
DecimalPrices == {10, 20, 110, 250}

\* the catalog of vendor A, the prices as MenuItem.price holds them
DecimalMenu(a, b) ==
    [InitMenu EXCEPT !["dishA"].price = parseFloat(a), !["dishB"].price = parseFloat(b)]

DecimalInit ==
    /\ deployed = VendorStaff
    /\ orders = <<>>
    /\ menu \in { DecimalMenu(a, b) : a, b \in DecimalPrices }
    /\ resp = Idle
    /\ unitPriceAtOrderTime = <<>>
    /\ inflight = <<>>
    /\ accounts = <<>>

\* one or three of dish A, one of dish B
DecimalBatches ==
    { <<Line("dishA", "", 1, 5)>>, <<Line("dishA", "", 3, 5)>>, <<Line("dishB", "", 1, 5)>>,
      <<Line("dishA", "", 1, 5), Line("dishB", "", 1, 5)>> }

\* POST /api/orders by the owner of vendor A
DecimalPostOrder ==
    /\ resp = Idle
    /\ \E b \in DecimalBatches :
        LET body == [NoBody EXCEPT !.tableNumber = 5, !.items = b]
            r == createOrderWith(TRUE, OwnerA, body)
        IN  /\ Len(r.orders) <= MaxOrders
            /\ orders' = r.orders
            /\ resp' = Handled(Request("createOrder", OwnerA, 0, "", body), r.res,
                               IF r.res = ResCreated THEN <<Len(r.orders)>> ELSE <<>>)
            /\ unitPriceAtOrderTime' =
                  IF r.res = ResCreated
                  THEN Append(unitPriceAtOrderTime, PricesRead(b))
                  ELSE unitPriceAtOrderTime
            /\ UNCHANGED <<deployed, accounts, menu, inflight>>

\* PUT /api/orders/:id/items by the owner of vendor A
DecimalPutItems ==
    /\ resp = Idle
    /\ \E id \in 1..MaxOrders, b \in DecimalBatches :
        LET r == addItemsToOrderWith(TRUE, OwnerA, id, b)
        IN  /\ \A i \in 1..Len(r.orders) : Len(r.orders[i].items) <= MaxItems
            /\ orders' = r.orders
            /\ resp' = Handled(Request("addItemsToOrder", OwnerA, id, "",
                                       [NoBody EXCEPT !.items = b]),
                               r.res, IF r.res = ResOK THEN <<id>> ELSE <<>>)
            /\ unitPriceAtOrderTime' =
                  IF r.res = ResOK
                  THEN [unitPriceAtOrderTime EXCEPT ![id] = @ \o PricesRead(b)]
                  ELSE unitPriceAtOrderTime
            /\ UNCHANGED <<deployed, accounts, menu, inflight>>

DecimalNext ==
    \/ DecimalPostOrder
    \/ DecimalPutItems
    \/ Send

SpecDecimal == DecimalInit /\ [][DecimalNext]_vars

(***************************************************************************)
(* The sales report of two shops over orders billed on different days.     *)
(***************************************************************************)
\* startDate and endDate of a report request: no date, missing, or an instant up
\* to the day after the latest write
DateInputs == {InvalidDate, NoDate} \cup 1..(MaxQueued + TicksPerDay)

ReportNext ==
    \/ PostOrderFrom({OwnerA}, {5}, {<<LineA>>},
                     {[vendorId |-> VendorA, status |-> "Kitchen", totalAmount |-> 0]},
                     MaxQueued)
    \/ PostOrderFrom({ServerB}, {5}, {<<LineC>>},
                     {[vendorId |-> VendorA, status |-> "Kitchen", totalAmount |-> 0]},
                     MaxQueued)
    \/ PutItemsFrom({OwnerA}, {1}, {<<LineB>>})
    \/ PutStatusFrom({OwnerA}, 1..MaxQueued, {"Served", "Billed", "Completed"})
    \/ GetCompletedFrom({OwnerA, ServerB}, DateInputs, DateInputs)
    \/ Send

SpecReport == CatalogInit /\ [][ReportNext]_vars

(***************************************************************************)
(* Two requests on one order that overlap.  A handler is suspended at each *)
(* await: addItemsToOrder at Order.findOne, at MenuItem.find inside         *)
(* calculateTotalAmount and at order.save(), updateStatus at Order.findOne *)
(* and at order.save().  Each step below runs one query and the code up to *)
(* the next await; inflight[p] holds what handler p keeps between steps.   *)
(***************************************************************************)
NoDoc ==
    [tableNumber |-> 0, items |-> <<>>, server |-> "", vendorId |-> "",
     totalAmount |-> 0, status |-> "", updatedAt |-> 0]

\* Handler p as it starts on req: base is the collection as it was then, read
\* the document findOne returned, doc that document as the handler changed it.
Started(req, base) ==
    [req |-> req, base |-> base, pc |-> "start", o |-> 0, read |-> NoDoc, doc |-> NoDoc,
     res |-> ResOK]

Done(h, res) == [h EXCEPT !.pc = "done", !.res = res]

\* order.save() of a document that was read as read and is now doc, onto the
\* document stored now: the lines pushed are appended ($push), totalAmount and
\* status are written if the handler changed them ($set), every other path is
\* left as stored; an unmodified document is not written.
saveDelta(o, read, doc) ==
    LET written == [orders[o] EXCEPT
            !.items = @ \o SubSeq(doc.items, Len(read.items) + 1, Len(doc.items)),
            !.totalAmount = IF doc.totalAmount # read.totalAmount THEN doc.totalAmount ELSE @,
            !.status = IF doc.status # read.status THEN doc.status ELSE @]
    IN  IF doc = read THEN orders
        ELSE renumber([orders EXCEPT ![o] = [written EXCEPT !.updatedAt = now(orders)]])

\* addItemsToOrder up to its second await: validation, Order.findOne, lock test
addFind(h) ==
    LET newItems == h.req.body.items
        o == findOne(h.req.id, h.req.user.vendorId)
    IN  IF Len(newItems) = 0 THEN Done(h, ResAddMissing)
        ELSE IF ~isValid(newItems) THEN Done(h, ResAddInvalidItem)
        ELSE IF h.req.id = BadId THEN Done(h, ResNotFoundCast)
        ELSE IF o = 0 THEN Done(h, ResNotFoundShop)
        ELSE IF addLocked(orders[o].status) THEN Done(h, ResCannotAdd)
        ELSE [h EXCEPT !.pc = "found", !.o = o, !.read = orders[o], !.doc = orders[o]]

\* addItemsToOrder from MenuItem.find to the call of order.save()
addResolve(h) ==
    LET c == calculateTotalAmount(h.req.body.items, h.req.user.vendorId)
    IN  IF c.thrown THEN Done(h, ResInvalidReference)
        ELSE [h EXCEPT !.pc = "saving",
                       !.doc = [h.read EXCEPT
                           !.items = h.read.items \o c.items,
                           !.totalAmount = addOnTotal(h.read.totalAmount, c.total),
                           !.status = addOnStatus(h.read.status)]]

\* updateStatus up to the call of order.save()
statusFind(h) ==
    LET o == findOne(h.req.id, h.req.user.vendorId)
    IN  IF h.req.newStatus = "" \/ ~includesStatus(h.req.user.role, h.req.newStatus)
        THEN Done(h, ResNotAuthorized)
        ELSE IF h.req.id = BadId THEN Done(h, ResNotFoundCast)
        ELSE IF o = 0 THEN Done(h, ResNotFoundShop)
        ELSE IF orders[o].status = "Completed" /\ h.req.user.role # "Vendor"
        THEN Done(h, ResCannotChange)
        ELSE [h EXCEPT !.pc = "saving", !.o = o, !.read = orders[o],
                       !.doc = [orders[o] EXCEPT !.status = h.req.newStatus]]

Handlers == {1, 2}

\* the requests of the two handlers: an add-on, and an add-on or a status change,
\* by the owner and the kitchen of vendor A on the first order
RaceAddOns ==
    { Request("addItemsToOrder", OwnerA, 1, "", [NoBody EXCEPT !.items = b]) :
        b \in {<<LineA>>, <<LineB>>} }

RaceStatusChanges ==
    { Request("updateStatus", u, 1, s, NoBody) :
        u \in {OwnerA, KitchenA}, s \in {"Ready", "Billed"} }

\* two requests arrive while the first order has room for their lines
RaceBegin ==
    /\ inflight = <<>>
    /\ resp = Idle
    /\ Len(orders) > 0
    /\ Len(orders[1].items) < MaxItems
    /\ \E r1 \in RaceAddOns, r2 \in RaceAddOns \cup RaceStatusChanges :
         inflight' = <<Started(r1, orders), Started(r2, orders)>>
    /\ UNCHANGED <<deployed, accounts, orders, menu, resp, unitPriceAtOrderTime>>

AddFind(p) ==
    /\ inflight # <<>>
    /\ inflight[p].req.op = "addItemsToOrder" /\ inflight[p].pc = "start"
    /\ inflight' = [inflight EXCEPT ![p] = addFind(@)]
    /\ UNCHANGED <<deployed, accounts, orders, menu, resp, unitPriceAtOrderTime>>

AddResolve(p) ==
    /\ inflight # <<>>
    /\ inflight[p].req.op = "addItemsToOrder" /\ inflight[p].pc = "found"
    /\ inflight' = [inflight EXCEPT ![p] = addResolve(@)]
    /\ UNCHANGED <<deployed, accounts, orders, menu, resp, unitPriceAtOrderTime>>

AddSave(p) ==
    /\ inflight # <<>>
    /\ inflight[p].req.op = "addItemsToOrder" /\ inflight[p].pc = "saving"
    /\ orders' = saveDelta(inflight[p].o, inflight[p].read, inflight[p].doc)
    /\ unitPriceAtOrderTime' =
          [unitPriceAtOrderTime EXCEPT ![inflight[p].o] = @ \o PricesRead(inflight[p].req.body.items)]
    /\ inflight' = [inflight EXCEPT ![p] = Done(@, ResOK)]
    /\ UNCHANGED <<deployed, accounts, menu, resp>>

StatusFind(p) ==
    /\ inflight # <<>>
    /\ inflight[p].req.op = "updateStatus" /\ inflight[p].pc = "start"
    /\ inflight' = [inflight EXCEPT ![p] = statusFind(@)]
    /\ UNCHANGED <<deployed, accounts, orders, menu, resp, unitPriceAtOrderTime>>

StatusSave(p) ==
    /\ inflight # <<>>
    /\ inflight[p].req.op = "updateStatus" /\ inflight[p].pc = "saving"
    /\ orders' = saveDelta(inflight[p].o, inflight[p].read, inflight[p].doc)
    /\ inflight' = [inflight EXCEPT ![p] = Done(@, ResOK)]
    /\ UNCHANGED <<deployed, accounts, menu, resp, unitPriceAtOrderTime>>

\* both responses have left the server
RaceEnd ==
    /\ inflight # <<>>
    /\ \A p \in Handlers : inflight[p].pc = "done"
    /\ inflight' = <<>>
    /\ UNCHANGED <<deployed, accounts, orders, menu, resp, unitPriceAtOrderTime>>

RaceNext ==
    \/ inflight = <<>> /\ PostOrderFrom({OwnerA}, {5}, {<<LineA>>}, BodyExtras, MaxOrders)
    \/ inflight = <<>> /\ PutStatusFrom({OwnerA}, 1..MaxOrders, {"Served", "Completed"})
    \/ Send
    \/ RaceBegin
    \/ \E p \in Handlers : AddFind(p)
    \/ \E p \in Handlers : AddResolve(p)
    \/ \E p \in Handlers : AddSave(p)
    \/ \E p \in Handlers : StatusFind(p)
    \/ \E p \in Handlers : StatusSave(p)
    \/ RaceEnd

SpecRace == CatalogInit /\ [][RaceNext]_vars

(***************************************************************************)
(* middleware/auth.js and the routes it guards.  A route is a list of      *)
(* gates auth(requiredRoles) followed by the handler; each gate either     *)
(* answers the request or calls next().                                    *)
(***************************************************************************)
ResNoToken == Res(401, "No token, authorization denied")
ResTokenInvalid == Res(401, "Token is not valid")
ResAccessDenied == Res(403, "Access denied. Requires one of the roles.")
ResMenuDeleted == Res(200, "Menu item deleted successfully.")
ResMenuDeleteNotFound == Res(404, "Menu item not found or unauthorized to delete.")

\* req.header('x-auth-token'): no header, a string that jwt.verify rejects (not
\* signed with the secret, or expired), and the tokens that register and login
\* sign, whose payload holds the user
NoToken == [kind |-> "none", user |-> NoUser]
BadToken == [kind |-> "invalid", user |-> NoUser]
Signed(user) == [kind |-> "signed", user |-> user]
Tokens == {NoToken, BadToken} \cup { Signed(u) : u \in Users }

\* The argument of auth: none, one role, an array of roles.
NoRoles == [isArray |-> FALSE, one |-> "", many |-> <<>>]
OneRole(role) == [isArray |-> FALSE, one |-> role, many |-> <<>>]
RoleList(roles) == [isArray |-> TRUE, one |-> "", many |-> roles]

\* Boolean(x) of a string or of undefined
Truthy(x) == x # ""

\* roles of auth.js: the argument as an array without its falsy entries
rolesOf(requiredRoles) ==
    IF requiredRoles.isArray
    THEN SelectSeq(requiredRoles.many, Truthy)
    ELSE SelectSeq(<<requiredRoles.one>>, Truthy)

\* mutant of auth: the role of the token is not compared with the roles
auth_AnyRole(requiredRoles, token) ==
    IF token.kind = "none"
    THEN [next |-> FALSE, res |-> ResNoToken, user |-> NoUser]
    ELSE IF token.kind = "invalid"
    THEN [next |-> FALSE, res |-> ResTokenInvalid, user |-> NoUser]
    ELSE [next |-> TRUE, res |-> ResNone, user |-> token.user]

\* auth(requiredRoles)(req, res, next): whether next() is called, the response
\* written otherwise, and req.user
auth(requiredRoles, token) ==
    IF token.kind = "none"
    THEN [next |-> FALSE, res |-> ResNoToken, user |-> NoUser]
    ELSE IF token.kind = "invalid"
    THEN [next |-> FALSE, res |-> ResTokenInvalid, user |-> NoUser]
    ELSE LET roles == rolesOf(requiredRoles)
         IN  IF Len(roles) > 0 /\ token.user.role \notin Range(roles)
             THEN [next |-> FALSE, res |-> ResAccessDenied, user |-> token.user]
             ELSE [next |-> TRUE, res |-> ResNone, user |-> token.user]

\* The gates of a route from the i-th on, each run when the one before it called
\* next(): whether the handler is reached, the response of the gate that
\* refused, req.user, and the number of gates that called next().
RECURSIVE through(_, _, _)
through(gates, token, i) ==
    IF i > Len(gates)
    THEN [next |-> TRUE, res |-> ResNone, user |-> token.user, passed |-> Len(gates)]
    ELSE LET a == auth(gates[i], token)
         IN  IF a.next
             THEN through(gates, token, i + 1)
             ELSE [next |-> FALSE, res |-> a.res, user |-> a.user, passed |-> i - 1]

\* routes/menu.js
isVendor == OneRole("Vendor")

\* the gates of the routes
postOrderGates == <<RoleList(<<"Server", "Vendor">>)>>
\* mutant of putItemsGates: the gate of PUT /:id/status
putItemsGates_AllStaff == <<RoleList(<<"Kitchen", "Server", "Billing", "Vendor">>)>>

putItemsGates == <<RoleList(<<"Server", "Vendor">>)>>
putStatusGates == <<RoleList(<<"Kitchen", "Server", "Billing", "Vendor">>)>>
getCompletedGates == <<RoleList(<<"Vendor", "Billing">>)>>
putMenuGates == <<NoRoles, RoleList(<<"Vendor", "Kitchen">>)>>
deleteMenuGates == <<NoRoles, isVendor>>

\* MenuItem.findOneAndDelete({ _id: id, vendorId })
deleteMenuItem(user, id) ==
    LET accessCheck == checkMenuAccess(user, MENU_MANAGEMENT_ROLES)
    IN  IF accessCheck # ResOK
        THEN [res |-> accessCheck, menu |-> menu]
        ELSE IF id = ""
        THEN [res |-> ResMenuInvalidId, menu |-> menu]
        ELSE IF id \notin DOMAIN menu \/ menu[id].vendorId # user.vendorId
        THEN [res |-> ResMenuDeleteNotFound, menu |-> menu]
        ELSE [res |-> ResMenuDeleted, menu |-> [m \in DOMAIN menu \ {id} |-> menu[m]]]

\* The response to a request that came through the gates of a route: the token
\* it carried, the gates, what they did (g), both collections as the request
\* found them, and the response of the gate that refused or of the handler.
Routed(op, token, gates, g, id, body, res, out) ==
    [req |-> Request(op, g.user, id, "", body), before |-> orders, res |-> res, out |-> out,
     token |-> token, gates |-> gates, passed |-> g.passed, invoked |-> g.next,
     menuBefore |-> menu]

\* POST /api/orders
RoutePostOrder ==
    /\ resp = Idle
    /\ \E token \in Tokens :
        LET g == through(postOrderGates, token, 1)
            body == [NoBody EXCEPT !.tableNumber = 5, !.items = <<LineA>>]
            r == IF g.next THEN createOrder(g.user, body) ELSE [res |-> g.res, orders |-> orders]
        IN  /\ Len(r.orders) <= MaxOrders
            /\ orders' = r.orders
            /\ resp' = Routed("createOrder", token, postOrderGates, g, 0, body, r.res,
                              IF r.res = ResCreated THEN <<Len(r.orders)>> ELSE <<>>)
            /\ unitPriceAtOrderTime' =
                  IF r.res = ResCreated
                  THEN Append(unitPriceAtOrderTime, PricesRead(body.items))
                  ELSE unitPriceAtOrderTime
            /\ UNCHANGED <<deployed, accounts, menu, inflight>>

\* PUT /api/orders/:id/items
RoutePutItems ==
    /\ resp = Idle
    /\ \E token \in Tokens, id \in 1..MaxOrders :
        LET g == through(putItemsGates, token, 1)
            body == [NoBody EXCEPT !.items = <<LineA>>]
            r == IF g.next THEN addItemsToOrder(g.user, id, body.items)
                 ELSE [res |-> g.res, orders |-> orders]
        IN  /\ \A i \in 1..Len(r.orders) : Len(r.orders[i].items) <= MaxItems
            /\ orders' = r.orders
            /\ resp' = Routed("addItemsToOrder", token, putItemsGates, g, id, body, r.res,
                              IF r.res = ResOK THEN <<id>> ELSE <<>>)
            /\ unitPriceAtOrderTime' =
                  IF r.res = ResOK
                  THEN [unitPriceAtOrderTime EXCEPT ![id] = @ \o PricesRead(body.items)]
                  ELSE unitPriceAtOrderTime
            /\ UNCHANGED <<deployed, accounts, menu, inflight>>

\* PUT /api/orders/:id/status
RoutePutStatus ==
    /\ resp = Idle
    /\ \E token \in Tokens, id \in 1..MaxOrders, s \in {"Served", "Billed"} :
        LET g == through(putStatusGates, token, 1)
            r == IF g.next THEN updateStatus(g.user, id, s)
                 ELSE [res |-> g.res, orders |-> orders]
        IN  /\ orders' = r.orders
            /\ resp' = [Routed("updateStatus", token, putStatusGates, g, id, NoBody, r.res,
                               IF r.res = ResOK THEN <<id>> ELSE <<>>)
                          EXCEPT !.req.newStatus = s]
            /\ UNCHANGED <<deployed, accounts, menu, unitPriceAtOrderTime, inflight>>

\* GET /api/orders/completed
RouteGetCompleted ==
    /\ resp = Idle
    /\ \E token \in Tokens :
        LET g == through(getCompletedGates, token, 1)
            r == IF g.next THEN getCompletedOrders(g.user, NoDate, NoDate)
                 ELSE [res |-> g.res, orders |-> <<>>, count |-> 0, totalSales |-> 0]
        IN  /\ resp' = Routed("getCompletedOrders", token, getCompletedGates, g, 0, NoBody,
                              r.res, r.orders)
            /\ UNCHANGED <<deployed, accounts, orders, menu, unitPriceAtOrderTime, inflight>>

\* PUT /api/menu/:id
RoutePutMenu ==
    /\ resp = Idle
    /\ \E token \in Tokens, id \in {"dishA", "dishC"} :
        LET g == through(putMenuGates, token, 1)
            r == IF g.next THEN updateMenuItem(g.user, id, MenuUpdate({"price"}, 120, TRUE, ""))
                 ELSE [res |-> g.res, menu |-> menu]
        IN  /\ menu' = r.menu
            /\ resp' = [Routed("updateMenuItem", token, putMenuGates, g, 0, NoBody, r.res, <<>>)
                          EXCEPT !.req.newStatus = id]
            /\ UNCHANGED <<deployed, accounts, orders, unitPriceAtOrderTime, inflight>>

\* DELETE /api/menu/:id
RouteDeleteMenu ==
    /\ resp = Idle
    /\ \E token \in Tokens, id \in {"dishB", "dishC"} :
        LET g == through(deleteMenuGates, token, 1)
            r == IF g.next THEN deleteMenuItem(g.user, id) ELSE [res |-> g.res, menu |-> menu]
        IN  /\ menu' = r.menu
            /\ resp' = [Routed("deleteMenuItem", token, deleteMenuGates, g, 0, NoBody, r.res, <<>>)
                          EXCEPT !.req.newStatus = id]
            /\ UNCHANGED <<deployed, accounts, orders, unitPriceAtOrderTime, inflight>>

AuthNext ==
    \/ RoutePostOrder
    \/ RoutePutItems
    \/ RoutePutStatus
    \/ RouteGetCompleted
    \/ RoutePutMenu
    \/ RouteDeleteMenu
    \/ Send

SpecAuth == CatalogInit /\ [][AuthNext]_vars

(***************************************************************************)
(* routes/order.js: the GET routes of each router, matched in the order    *)
(* they were registered.  The first route whose path matches takes the     *)
(* request; none of its gates or handlers passes it on once it answered.   *)
(***************************************************************************)
\* The path below /api/orders of a GET request: one segment, a static name or
\* (name "") what stands for an order id.
Seg(name, id) == [name |-> name, id |-> id]
GetPaths ==
    { Seg(n, BadId) : n \in {"kitchen", "billing", "completed"} }
        \cup { Seg("", i) : i \in OrderIds }

Route(path, gates, handler) == [path |-> path, gates |-> gates, handler |-> handler]

\* router.get(...), in registration order
getRoutes(ctl) ==
    IF ctl = VendorStaff
    THEN << Route("kitchen", <<RoleList(<<"Kitchen", "Vendor">>)>>, "getKitchenOrders"),
            Route("billing", <<RoleList(<<"Billing", "Vendor", "Server">>)>>, "getBillingOrders"),
            Route("completed", getCompletedGates, "getCompletedOrders"),
            Route(":id", <<RoleList(<<"Server", "Billing", "Vendor">>)>>, "getOrderById") >>
    ELSE << Route("kitchen", <<RoleList(<<"Kitchen", "Vendor">>)>>, "getKitchenOrders"),
            Route("billing", <<RoleList(<<"Billing", "Vendor", "Server", "Kitchen">>)>>,
                  "OC_getBillingOrders"),
            Route(":id", <<RoleList(<<"Server", "Billing", "Vendor">>)>>, "getOrderById") >>

\* a static path matches its own name, /:id matches every segment
matches(route, seg) == route.path = ":id" \/ route.path = seg.name

\* the first route that matches
dispatch(routes, seg) ==
    routes[CHOOSE i \in 1..Len(routes) :
              /\ matches(routes[i], seg)
              /\ \A j \in 1..(i - 1) : ~matches(routes[j], seg)]

\* req.params.id under /:id: a static name is a string that is no ObjectId
paramsId(seg) == IF seg.name = "" THEN seg.id ELSE BadId

\* the handler of a route run for user: its response and the orders it returns
runGet(handler, user, id) ==
    CASE handler = "getKitchenOrders" -> [res |-> ResOK, out |-> getKitchenOrders(user)]
      [] handler = "getBillingOrders" -> [res |-> ResOK, out |-> getBillingOrders(user)]
      [] handler = "OC_getBillingOrders" -> [res |-> ResOK, out |-> OC_getBillingOrders(user)]
      [] handler = "getCompletedOrders" ->
            LET c == getCompletedOrders(user, NoDate, NoDate)
            IN  [res |-> c.res, out |-> c.orders]
      [] handler = "getOrderById" ->
            LET o == getOrderById(user, id)
            IN  [res |-> o.res, out |-> IF o.found = 0 THEN <<>> ELSE <<o.found>>]

\* GET /api/orders/<segment>
RouteGet ==
    /\ resp = Idle
    /\ \E token \in Tokens, seg \in GetPaths :
        LET route == dispatch(getRoutes(deployed), seg)
            g == through(route.gates, token, 1)
            r == IF g.next THEN runGet(route.handler, g.user, paramsId(seg))
                 ELSE [res |-> g.res, out |-> <<>>]
        IN  /\ resp' = [req |-> Request(route.handler, g.user, paramsId(seg), "", NoBody),
                        path |-> seg, route |-> route.path, token |-> token,
                        invoked |-> g.next, before |-> orders, res |-> r.res, out |-> r.out]
            /\ UNCHANGED <<deployed, accounts, orders, menu, unitPriceAtOrderTime, inflight>>

RoutesNext ==
    \/ PostOrderFrom({OwnerA, ServerB}, {5}, {<<LineA>>, <<LineC>>},
                     {[vendorId |-> VendorA, status |-> "Kitchen", totalAmount |-> 0]},
                     MaxOrders)
    \/ PutStatusFrom({OwnerA, ServerB}, 1..MaxOrders, {"Ready", "Billed"})
    \/ OC_PutStatus
    \/ RouteGet
    \/ Send

SpecRoutes == Init /\ [][RoutesNext]_vars

(***************************************************************************)
(* Accounts: register, login, approveStaff, deleteStaff.  The _id of an    *)
(* account is its place in accounts.  The shop a Vendor registration       *)
(* creates carries the _id of its owner's account (ownerUser), and the     *)
(* Vendor collection holds one shop per Vendor account: no handler deletes *)
(* a shop or an owner.  Requests bring a well-formed email and phone       *)
(* number, each username its own.                                          *)
(***************************************************************************)
\* bcrypt.hash and bcrypt.compare
bcryptHash(password) == <<"$2a$10", password>>
bcryptCompare(password, hash) == hash = bcryptHash(password)

\* the role enum of userSchema
UserRoles == {"Vendor", "Server", "Kitchen", "Billing"}

\* req.body of POST /api/auth/register.  common: email and phoneNumber are
\* sent; shop: shopName, gstNumber and foodLicenseNumber are sent; vendorId 0:
\* none sent.
RegisterBodies ==
    [username : {"asha", "ravi", "sita"}, password : {"pw"}, role : {"Vendor", "Server", "Manager", ""},
     common : BOOLEAN, shop : BOOLEAN, vendorId : 0..2]

\* User.findOne({ username }): the _id of the account, 0 for none
findByUsername(username) ==
    IF \E i \in 1..Len(accounts) : ~accounts[i].deleted /\ accounts[i].username = username
    THEN CHOOSE i \in 1..Len(accounts) : ~accounts[i].deleted /\ accounts[i].username = username
    ELSE 0

\* User.findById(id) for a well-formed id: the _id of the account, 0 for none
findById(id) == IF id \in 1..Len(accounts) /\ ~accounts[id].deleted THEN id ELSE 0

\* Vendor.findById(vendorId)
existingVendor(vendorId) ==
    \E i \in 1..Len(accounts) : accounts[i].role = "Vendor" /\ accounts[i].vendorId = vendorId

\* the payload generateToken signs for account i
payload(i) ==
    [id |-> i, role |-> accounts[i].role, isApproved |-> accounts[i].isApproved,
     vendorId |-> accounts[i].vendorId]

\* mutant of register: the staff branch sets isApproved as the Vendor branch does
register_StaffApproved(body) ==
    IF body.username = "" \/ body.password = "" \/ body.role = "" \/ ~body.common
    THEN [res |-> Res(400, "Missing required common fields."), accounts |-> accounts,
          token |-> NoToken]
    ELSE IF findByUsername(body.username) # 0
    THEN [res |-> Res(400, "Username already exists"), accounts |-> accounts,
          token |-> NoToken]
    ELSE IF body.role = "Vendor"
    THEN IF ~body.shop
         THEN [res |-> Res(400, "Vendor must provide Shop Name, GST Number, and Food License Number."),
               accounts |-> accounts, token |-> NoToken]
         ELSE LET id == Len(accounts) + 1
                  user == [username |-> body.username, password |-> bcryptHash(body.password),
                           role |-> body.role, vendorId |-> id,
                           isApproved |-> TRUE, deleted |-> FALSE]
              IN  [res |-> ResOK, accounts |-> Append(accounts, user),
                   token |-> Signed([id |-> id, role |-> user.role,
                                     isApproved |-> user.isApproved, vendorId |-> user.vendorId])]
    ELSE IF body.vendorId = 0
    THEN [res |-> Res(400, "Staff must provide a Vendor ID to join a shop."),
          accounts |-> accounts, token |-> NoToken]
    ELSE IF ~existingVendor(body.vendorId)
    THEN [res |-> Res(400, "Invalid Vendor ID provided. Please check with your Vendor/Owner."),
          accounts |-> accounts, token |-> NoToken]
    ELSE IF body.role \notin UserRoles
    THEN [res |-> Res(500, "Server error"), accounts |-> accounts, token |-> NoToken]
    ELSE [res |-> Res(201, "Account created. Waiting for Vendor approval."),
          accounts |-> Append(accounts,
              [username |-> body.username, password |-> bcryptHash(body.password),
               role |-> body.role, vendorId |-> body.vendorId,
               isApproved |-> TRUE, deleted |-> FALSE]),
          token |-> NoToken]

\* POST /api/auth/register: the response, the collection after it, the token
\* the response carries
register(body) ==
    IF body.username = "" \/ body.password = "" \/ body.role = "" \/ ~body.common
    THEN [res |-> Res(400, "Missing required common fields."), accounts |-> accounts,
          token |-> NoToken]
    ELSE IF findByUsername(body.username) # 0
    THEN [res |-> Res(400, "Username already exists"), accounts |-> accounts,
          token |-> NoToken]
    ELSE IF body.role = "Vendor"
    THEN IF ~body.shop
         THEN [res |-> Res(400, "Vendor must provide Shop Name, GST Number, and Food License Number."),
               accounts |-> accounts, token |-> NoToken]
         ELSE LET id == Len(accounts) + 1
                  user == [username |-> body.username, password |-> bcryptHash(body.password),
                           role |-> body.role, vendorId |-> id,
                           isApproved |-> TRUE, deleted |-> FALSE]
              IN  [res |-> ResOK, accounts |-> Append(accounts, user),
                   token |-> Signed([id |-> id, role |-> user.role,
                                     isApproved |-> user.isApproved, vendorId |-> user.vendorId])]
    ELSE IF body.vendorId = 0
    THEN [res |-> Res(400, "Staff must provide a Vendor ID to join a shop."),
          accounts |-> accounts, token |-> NoToken]
    ELSE IF ~existingVendor(body.vendorId)
    THEN [res |-> Res(400, "Invalid Vendor ID provided. Please check with your Vendor/Owner."),
          accounts |-> accounts, token |-> NoToken]
    ELSE IF body.role \notin UserRoles
    THEN [res |-> Res(500, "Server error"), accounts |-> accounts, token |-> NoToken]
    ELSE [res |-> Res(201, "Account created. Waiting for Vendor approval."),
          accounts |-> Append(accounts,
              [username |-> body.username, password |-> bcryptHash(body.password),
               role |-> body.role, vendorId |-> body.vendorId,
               isApproved |-> FALSE, deleted |-> FALSE]),
          token |-> NoToken]

\* POST /api/auth/login
login(username, password) ==
    LET user == findByUsername(username)
    IN  IF user = 0
        THEN [res |-> Res(400, "Invalid Credentials"), token |-> NoToken]
        ELSE IF ~bcryptCompare(password, accounts[user].password)
        THEN [res |-> Res(400, "Invalid Credentials"), token |-> NoToken]
        ELSE IF accounts[user].role # "Vendor" /\ ~accounts[user].isApproved
        THEN [res |-> Res(403, "Your account is pending Vendor approval."), token |-> NoToken]
        ELSE [res |-> ResOK, token |-> Signed(payload(user))]

\* Check 1 of approveStaff and deleteStaff: the _id of the account if it exists,
\* is no Vendor and belongs to the caller's shop, else 0
staffOf(caller, id) ==
    IF findById(id) = 0 \/ accounts[id].role = "Vendor"
           \/ accounts[id].vendorId # caller.vendorId
    THEN 0
    ELSE id

\* PUT /api/vendor/staff/:id/approve; User.findById throws on an id that is no
\* ObjectId, which the catch answers
approveStaff(caller, id) ==
    IF id = BadId
    THEN [res |-> Res(500, "Server error"), accounts |-> accounts]
    ELSE IF staffOf(caller, id) = 0
    THEN [res |-> Res(404, "Staff account not found or unauthorized for this vendor."),
          accounts |-> accounts]
    ELSE IF accounts[id].isApproved
    THEN [res |-> Res(400, "Staff account is already approved."), accounts |-> accounts]
    ELSE [res |-> ResOK, accounts |-> [accounts EXCEPT ![id].isApproved = TRUE]]

\* DELETE /api/vendor/staff/:id
deleteStaff(caller, id) ==
    IF id = BadId
    THEN [res |-> Res(500, "Server error"), accounts |-> accounts]
    ELSE IF staffOf(caller, id) = 0
    THEN [res |-> Res(404, "Staff account not found or unauthorized for this vendor."),
          accounts |-> accounts]
    ELSE [res |-> ResOK, accounts |-> [accounts EXCEPT ![id].deleted = TRUE]]

\* The response to a request about accounts: the collection as the request found
\* it, the response, and the token the response carries.
Answered(op, caller, id, body, res, token) ==
    [req |-> [op |-> op, user |-> caller, id |-> id, body |-> body],
     before |-> accounts, res |-> res, token |-> token]

\* The tokens a caller can hold: none, one that does not verify, and those of
\* the owners and of the approved staff, whose accounts may be gone since.
HeldTokens ==
    {NoToken, BadToken}
        \cup { Signed(payload(i)) : i \in { j \in 1..Len(accounts) :
                  accounts[j].role = "Vendor" \/ accounts[j].isApproved } }

\* POST /api/auth/register
Register ==
    /\ resp = Idle
    /\ Len(accounts) < MaxAccounts
    /\ \E body \in RegisterBodies :
        LET r == register(body)
        IN  /\ accounts' = r.accounts
            /\ resp' = Answered("register", NoUser, 0, body, r.res, r.token)
    /\ UNCHANGED <<deployed, orders, menu, unitPriceAtOrderTime, inflight>>

\* POST /api/auth/login
Login ==
    /\ resp = Idle
    /\ \E username \in {"asha", "ravi", "sita"}, password \in {"pw", "guess"} :
        LET r == login(username, password)
        IN  resp' = Answered("login", NoUser, 0,
                             [username |-> username, password |-> password], r.res, r.token)
    /\ UNCHANGED <<deployed, orders, menu, unitPriceAtOrderTime, inflight, accounts>>

\* PUT /api/vendor/staff/:id/approve behind vendorAuth
ApproveStaff ==
    /\ resp = Idle
    /\ \E token \in HeldTokens, id \in BadId..(MaxAccounts + 1) :
        LET g == through(<<isVendor>>, token, 1)
            r == IF g.next THEN approveStaff(g.user, id)
                 ELSE [res |-> g.res, accounts |-> accounts]
        IN  /\ accounts' = r.accounts
            /\ resp' = Answered("approveStaff", g.user, id, NoBody, r.res, NoToken)
    /\ UNCHANGED <<deployed, orders, menu, unitPriceAtOrderTime, inflight>>

\* DELETE /api/vendor/staff/:id behind vendorAuth
DeleteStaff ==
    /\ resp = Idle
    /\ \E token \in HeldTokens, id \in BadId..(MaxAccounts + 1) :
        LET g == through(<<isVendor>>, token, 1)
            r == IF g.next THEN deleteStaff(g.user, id)
                 ELSE [res |-> g.res, accounts |-> accounts]
        IN  /\ accounts' = r.accounts
            /\ resp' = Answered("deleteStaff", g.user, id, NoBody, r.res, NoToken)
    /\ UNCHANGED <<deployed, orders, menu, unitPriceAtOrderTime, inflight>>

StaffNext ==
    \/ Register
    \/ Login
    \/ ApproveStaff
    \/ DeleteStaff
    \/ Send

SpecStaff == CatalogInit /\ [][StaffNext]_vars

(***************************************************************************)
(* The claims.  They read the last request and its response in resp; the   *)
(* role matrix, the sums and the scopes they speak of are defined here,    *)
(* apart from the handlers'.                                               *)
(***************************************************************************)
StatusOps == {"updateStatus", "OC_updateStatus"}

\* the role -> statuses matrix of the specification
MatrixAllows(role, status) ==
    \/ role = "Kitchen" /\ status = "Ready"
    \/ role = "Server"  /\ status = "Served"
    \/ role = "Billing" /\ status \in {"Billed", "Completed"}
    \/ role = "Vendor"  /\ status \in {"Pending", "Kitchen", "Ready", "Served", "Billed", "Completed"}

\* the request named an order that was stored, of the caller's vendor, when it arrived
TargetInScope ==
    /\ resp.req.id \in 1..Len(resp.before)
    /\ resp.before[resp.req.id].vendorId = resp.req.user.vendorId

\* the order the request named, as the request found it and as it is now
TargetBefore == resp.before[resp.req.id]
TargetNow == orders[resp.req.id]

\* C1: a status request outside the caller's row of the matrix (also one with no
\* status, or of a role without a row) is answered Forbidden and changes no
\* order, whatever the target and its status.
C1_ForbiddenOutsideMatrix ==
    (resp.req.op \in StatusOps /\ ~MatrixAllows(resp.req.user.role, resp.req.newStatus))
        => (Kind(resp.res) = "Forbidden" /\ orders = resp.before)

\* C1 witness: the server asked for Billed on a stored order and got Forbidden.
C1_Witness ==
    /\ resp.req.op = "updateStatus"
    /\ resp.req.user.role = "Server"
    /\ resp.req.newStatus = "Billed"
    /\ resp.req.id \in 1..Len(resp.before)
    /\ Kind(resp.res) = "Forbidden"

\* C2: on a Completed order of the caller's vendor a matrix-allowed request of a
\* non-Vendor caller is answered InvalidState and changes nothing; a Vendor's
\* request succeeds for each of the six statuses and sets the status asked for.
C2_CompletedLock ==
    (/\ resp.req.op \in StatusOps
     /\ MatrixAllows(resp.req.user.role, resp.req.newStatus)
     /\ TargetInScope
     /\ TargetBefore.status = "Completed")
        => IF resp.req.user.role = "Vendor"
           THEN Kind(resp.res) = "Success" /\ TargetNow.status = resp.req.newStatus
           ELSE Kind(resp.res) = "InvalidState" /\ orders = resp.before

\* C2 for the handler of vendorStaffController.js alone
C2_CompletedLock_VendorStaff ==
    resp.req.op = "updateStatus" => C2_CompletedLock

\* C3: a matrix-allowed request on an order of the caller's vendor that is not
\* Completed succeeds and sets exactly the status asked for, whatever the
\* current status (backward, the same status again, Billed).
C3_SetsAnyStatus ==
    (/\ resp.req.op \in StatusOps
     /\ MatrixAllows(resp.req.user.role, resp.req.newStatus)
     /\ TargetInScope
     /\ TargetBefore.status # "Completed")
        => (/\ Kind(resp.res) = "Success"
            /\ TargetNow.status = resp.req.newStatus
            /\ Len(orders) = Len(resp.before)
            /\ \A i \in 1..Len(orders) :
                 /\ i # resp.req.id => orders[i].status = resp.before[i].status
                 /\ orders[i].items = resp.before[i].items
                 /\ orders[i].totalAmount = resp.before[i].totalAmount)

\* C3 for the handler of vendorStaffController.js alone
C3_SetsAnyStatus_VendorStaff ==
    resp.req.op = "updateStatus" => C3_SetsAnyStatus

\* C4: the checks run matrix, then vendor scope, then the Completed lock: outside
\* the matrix the answer is Forbidden whatever the target; inside the matrix a
\* target outside the caller's vendor scope is answered NotFound; InvalidState is
\* answered only to a matrix-allowed request on an order in scope.
C4_CheckOrder ==
    resp.req.op \in StatusOps =>
        /\ ~MatrixAllows(resp.req.user.role, resp.req.newStatus)
              => Kind(resp.res) = "Forbidden"
        /\ (MatrixAllows(resp.req.user.role, resp.req.newStatus) /\ ~TargetInScope)
              => Kind(resp.res) = "NotFound"
        /\ Kind(resp.res) = "InvalidState"
              => (MatrixAllows(resp.req.user.role, resp.req.newStatus) /\ TargetInScope)

\* C4 witness: Forbidden for a Completed order of another vendor
C4_Witness ==
    /\ resp.req.op = "updateStatus"
    /\ Kind(resp.res) = "Forbidden"
    /\ resp.req.id \in 1..Len(resp.before)
    /\ resp.before[resp.req.id].vendorId # resp.req.user.vendorId
    /\ resp.before[resp.req.id].status = "Completed"

\* the order createOrder appended
Created == orders[Len(orders)]

RECURSIVE LineSum(_)
\* sum over the lines of quantity * the catalog's unit price of the line's dish
LineSum(lines) ==
    IF lines = <<>> THEN 0
    ELSE Head(lines).quantity * menu[Head(lines).menuItemId].price + LineSum(Tail(lines))

\* a non-empty batch whose every line has a menuItemId, a quantity > 0 and an
\* itemTableNumber
WellFormed(lines) ==
    /\ Len(lines) > 0
    /\ \A i \in 1..Len(lines) :
         lines[i].menuItemId # "" /\ lines[i].quantity > 0 /\ lines[i].itemTableNumber # 0

\* every line names a dish of the vendor's catalog, no dish twice
Resolves(lines, vendorId) ==
    /\ \A i \in 1..Len(lines) :
         lines[i].menuItemId \in DOMAIN menu /\ menu[lines[i].menuItemId].vendorId = vendorId
    /\ \A i, j \in 1..Len(lines) : lines[i].menuItemId = lines[j].menuItemId => i = j

\* the lines as they are stored: each carries the catalog name of its dish
Named(lines) ==
    [i \in 1..Len(lines) |-> [lines[i] EXCEPT !.name = menu[lines[i].menuItemId].name]]

\* C5: a createOrder request with a table number and a well-formed batch that
\* resolves is answered with success; a successful createOrder appends exactly one
\* order, with status Kitchen, server the caller's id and vendorId the caller's
\* vendor, whatever vendorId, status or totalAmount the body carries; a failed one
\* stores nothing.
C5_CreatedOrderFields ==
    resp.req.op = "createOrder" =>
        /\ (/\ resp.req.body.tableNumber # 0
            /\ WellFormed(resp.req.body.items)
            /\ Resolves(resp.req.body.items, resp.req.user.vendorId))
              => Kind(resp.res) = "Success"
        /\ IF Kind(resp.res) = "Success"
           THEN /\ Len(orders) = Len(resp.before) + 1
                /\ \A i \in 1..Len(resp.before) : orders[i] = resp.before[i]
                /\ Created.status = "Kitchen"
                /\ Created.server = resp.req.user.id
                /\ Created.vendorId = resp.req.user.vendorId
           ELSE orders = resp.before

\* C5 witness: an order was created from a body that carried another vendor's id,
\* the status Completed and a totalAmount.
C5_Witness ==
    /\ resp.req.op = "createOrder"
    /\ Kind(resp.res) = "Success"
    /\ resp.req.body.vendorId # resp.req.user.vendorId
    /\ resp.req.body.status = "Completed"
    /\ resp.req.body.totalAmount # Created.totalAmount

\* C6: the order a successful createOrder stored holds every line of the request
\* and its totalAmount is the sum over these lines of quantity * unit price.
C6_CreatedTotal ==
    (resp.req.op = "createOrder" /\ Kind(resp.res) = "Success") =>
        /\ Len(Created.items) = Len(resp.req.body.items)
        /\ \A i \in 1..Len(Created.items) :
             /\ Created.items[i].menuItemId = resp.req.body.items[i].menuItemId
             /\ Created.items[i].quantity = resp.req.body.items[i].quantity
        /\ Created.totalAmount = LineSum(Created.items)

\* C6 witness: two lines, 2 x 100 and 1 x 50, gave 250.
C6_Witness ==
    /\ resp.req.op = "createOrder"
    /\ Kind(resp.res) = "Success"
    /\ Len(Created.items) = 2
    /\ Created.items[1].quantity = 2
    /\ Created.totalAmount = 250

\* C7: a successful addItemsToOrder leaves the order with its previous lines,
\* unchanged, followed by the new lines in request order, and with its previous
\* totalAmount plus the sum of quantity * unit price over the new lines.
C7_AppendAndAddTotal ==
    (resp.req.op = "addItemsToOrder" /\ Kind(resp.res) = "Success") =>
        /\ TargetNow.items = TargetBefore.items \o Named(resp.req.body.items)
        /\ TargetNow.totalAmount = TargetBefore.totalAmount + LineSum(resp.req.body.items)

\* C7 witness: one line of dish B at 50 was added to the Kitchen order of 200.
C7_Witness ==
    /\ resp.req.op = "addItemsToOrder"
    /\ Kind(resp.res) = "Success"
    /\ TargetBefore.status = "Kitchen"
    /\ TargetBefore.totalAmount = 200
    /\ TargetNow.totalAmount = 250
    /\ TargetNow.status = "Kitchen"
    /\ Len(TargetNow.items) = 2

\* C8: addItemsToOrder naming a Billed or Completed order never succeeds and
\* changes nothing; a well-formed batch from a caller of the order's vendor, of
\* any role, is answered InvalidState.
C8_NoAddOnAfterBilling ==
    (/\ resp.req.op = "addItemsToOrder"
     /\ resp.req.id \in 1..Len(resp.before)
     /\ TargetBefore.status \in {"Billed", "Completed"})
        => /\ Kind(resp.res) # "Success"
           /\ orders = resp.before
           /\ (WellFormed(resp.req.body.items) /\ TargetInScope)
                 => Kind(resp.res) = "InvalidState"

\* C8 witness: the owner's add-on to a Billed order of the shop was refused.
C8_Witness ==
    /\ resp.req.op = "addItemsToOrder"
    /\ resp.req.user.role = "Vendor"
    /\ TargetInScope
    /\ TargetBefore.status = "Billed"
    /\ Kind(resp.res) = "InvalidState"

\* C9: after a successful addItemsToOrder the status is Kitchen if it was Ready or
\* Served and is unchanged if it was Kitchen or Pending; an order that was Ready
\* or Served is then in the kitchen queue and in no billing queue.
C9_AddOnBackToKitchen ==
    (resp.req.op = "addItemsToOrder" /\ Kind(resp.res) = "Success") =>
        /\ TargetBefore.status \in {"Ready", "Served"} =>
             /\ TargetNow.status = "Kitchen"
             /\ resp.req.id \in Range(getKitchenOrders(resp.req.user))
             /\ resp.req.id \notin Range(getBillingOrders(resp.req.user))
             /\ resp.req.id \notin Range(OC_getBillingOrders(resp.req.user))
        /\ TargetBefore.status \in {"Kitchen", "Pending"} =>
             TargetNow.status = TargetBefore.status

\* C9 witness: an add-on to a Served order
C9_Witness ==
    /\ resp.req.op = "addItemsToOrder"
    /\ Kind(resp.res) = "Success"
    /\ TargetBefore.status = "Served"
    /\ TargetNow.status = "Kitchen"

\* the request named a stored order of another vendor
TargetForeign ==
    /\ resp.req.id \in 1..Len(resp.before)
    /\ resp.before[resp.req.id].vendorId # resp.req.user.vendorId

\* the request named a well-formed id of no stored order
TargetAbsent == resp.req.id > Len(resp.before)

ListOps == {"getKitchenOrders", "getBillingOrders", "OC_getBillingOrders", "getCompletedOrders"}

\* C10: getOrderById, updateStatus with a matrix-allowed status and
\* addItemsToOrder with a well-formed batch, naming an order of another vendor,
\* get the response a well-formed id of no order gets (404, "Order not found for
\* this shop.") and change nothing; no query returns an order of another vendor
\* than the caller's.
C10_TenantIsolation ==
    /\ (/\ TargetForeign \/ TargetAbsent
        /\ \/ resp.req.op = "getOrderById"
           \/ resp.req.op \in StatusOps
                /\ MatrixAllows(resp.req.user.role, resp.req.newStatus)
           \/ resp.req.op = "addItemsToOrder" /\ WellFormed(resp.req.body.items))
          => (resp.res = ResNotFoundShop /\ resp.out = <<>> /\ orders = resp.before)
    /\ resp.req.op \in ListOps \cup {"getOrderById"} =>
          \A k \in 1..Len(resp.out) : orders[resp.out[k]].vendorId = resp.req.user.vendorId

\* C10 witness: the owner of vendor A asked to bill a stored order of vendor B.
C10_Witness ==
    /\ resp.req.op = "updateStatus"
    /\ resp.req.user.role = "Vendor"
    /\ resp.req.newStatus = "Billed"
    /\ TargetForeign
    /\ resp.res = ResNotFoundShop

\* some line names an id that is no dish of the vendor's catalog
Unresolvable(lines, vendorId) ==
    \E i \in 1..Len(lines) :
        lines[i].menuItemId \notin DOMAIN menu \/ menu[lines[i].menuItemId].vendorId # vendorId

\* the request passed every check a handler makes before it resolves prices
ReachesResolution ==
    \/ /\ resp.req.op = "createOrder"
       /\ resp.req.body.tableNumber # 0
       /\ WellFormed(resp.req.body.items)
    \/ /\ resp.req.op = "addItemsToOrder"
       /\ WellFormed(resp.req.body.items)
       /\ TargetInScope
       /\ TargetBefore.status \notin {"Billed", "Completed"}

C12_DistinctIdCount ==
    ReachesResolution =>
        /\ Kind(resp.res) = "InvalidReference"
              <=> Unresolvable(resp.req.body.items, resp.req.user.vendorId)
        /\ ~Unresolvable(resp.req.body.items, resp.req.user.vendorId) =>
              /\ Kind(resp.res) = "Success"
              /\ resp.req.op = "createOrder"
                    => Created.totalAmount = LineSum(resp.req.body.items)
              /\ resp.req.op = "addItemsToOrder"
                    => TargetNow.totalAmount
                         = TargetBefore.totalAmount + LineSum(resp.req.body.items)

\* C14: createOrder with no tableNumber, with no or an empty items, or with a line
\* that lacks menuItemId, has quantity <= 0 or lacks itemTableNumber is answered
\* InvalidInput, whatever ids the batch names, and stores nothing;
\* addItemsToOrder with no or an empty batch or with such a line is answered
\* InvalidInput, whatever the target, and leaves every order unchanged.
C14_ValidationFirst ==
    /\ (/\ resp.req.op = "createOrder"
        /\ resp.req.body.tableNumber = 0 \/ ~WellFormed(resp.req.body.items))
          => (Kind(resp.res) = "InvalidInput" /\ orders = resp.before)
    /\ (resp.req.op = "addItemsToOrder" /\ ~WellFormed(resp.req.body.items))
          => (Kind(resp.res) = "InvalidInput" /\ orders = resp.before)

\* C14 witness: an add-on to a Kitchen order of the shop whose line of a dish of
\* the shop lacks itemTableNumber was answered InvalidInput.
C14_Witness ==
    /\ resp.req.op = "addItemsToOrder"
    /\ TargetInScope
    /\ TargetBefore.status = "Kitchen"
    /\ Len(resp.req.body.items) = 1
    /\ ~Unresolvable(resp.req.body.items, resp.req.user.vendorId)
    /\ resp.req.body.items[1].quantity > 0
    /\ resp.req.body.items[1].itemTableNumber = 0
    /\ Kind(resp.res) = "InvalidInput"

\* some line names a dish of the vendor that is off the menu (isAvailable = false)
NamesUnavailable(lines, vendorId) ==
    \E i \in 1..Len(lines) :
        /\ lines[i].menuItemId \in DOMAIN menu
        /\ menu[lines[i].menuItemId].vendorId = vendorId
        /\ ~menu[lines[i].menuItemId].isAvailable

\* C13: a createOrder or addItemsToOrder whose batch names a dish of the caller's
\* vendor that is currently unavailable never succeeds, so that no unavailable
\* dish is priced into an order, and is answered InvalidReference when it
\* reaches price resolution.
C13_UnavailableRejected ==
    (/\ resp.req.op \in {"createOrder", "addItemsToOrder"}
     /\ NamesUnavailable(resp.req.body.items, resp.req.user.vendorId))
        => /\ Kind(resp.res) # "Success"
           /\ orders = resp.before
           /\ ReachesResolution => Kind(resp.res) = "InvalidReference"

\* C15: every stored order has tableNumber > 0 and at least one line, and every
\* line of every stored order has quantity > 0 and itemTableNumber > 0.
C15_PositiveNumbers ==
    \A i \in 1..Len(orders) :
        /\ orders[i].tableNumber > 0
        /\ Len(orders[i].items) > 0
        /\ \A k \in 1..Len(orders[i].items) :
             /\ orders[i].items[k].quantity > 0
             /\ orders[i].items[k].itemTableNumber > 0

\* C15 for what the handlers do test: the table numbers are present and not
\* zero, the quantities positive
C15_NonZeroNumbers ==
    \A i \in 1..Len(orders) :
        /\ orders[i].tableNumber # 0
        /\ Len(orders[i].items) > 0
        /\ \A k \in 1..Len(orders[i].items) :
             /\ orders[i].items[k].quantity > 0
             /\ orders[i].items[k].itemTableNumber # 0

RECURSIVE SumAt(_, _)
\* sum over the lines of quantity * the unit price recorded for the line
SumAt(lines, prices) ==
    IF lines = <<>> THEN 0
    ELSE Head(lines).quantity * Head(prices) + SumAt(Tail(lines), Tail(prices))

\* C16: between requests and after each, every order's totalAmount is the sum
\* over its lines of quantity * the unit price the catalog held when the line
\* was added; an edit of the catalog changes no order; an add-on adds its lines
\* at the prices of the catalog as it is then and leaves the earlier lines'
\* share of the total as it was.
C16_TotalAtOrderTimePrices ==
    /\ Len(unitPriceAtOrderTime) = Len(orders)
    /\ \A i \in 1..Len(orders) :
         /\ Len(unitPriceAtOrderTime[i]) = Len(orders[i].items)
         /\ orders[i].totalAmount = SumAt(orders[i].items, unitPriceAtOrderTime[i])
    /\ resp.req.op = "updateMenuItem" => orders = resp.before
    /\ (resp.req.op = "addItemsToOrder" /\ Kind(resp.res) = "Success") =>
         TargetNow.totalAmount = TargetBefore.totalAmount + LineSum(resp.req.body.items)

\* C16 witness: two lines of 2 x dish A, the first added at 100 and the second
\* at 120 after the price was edited, total 440.
C16_Witness ==
    /\ resp.req.op = "addItemsToOrder"
    /\ Kind(resp.res) = "Success"
    /\ unitPriceAtOrderTime[resp.req.id] = <<100, 120>>
    /\ TargetNow.items[1].menuItemId = TargetNow.items[2].menuItemId
    /\ TargetBefore.totalAmount = 200
    /\ TargetNow.totalAmount = 440

\* both overlapping requests have been answered
BothDone == inflight # <<>> /\ \A p \in Handlers : inflight[p].pc = "done"

\* the order both requests named, as it was when they arrived
RaceBase == inflight[1].base[inflight[1].req.id]

\* C17: when two addItemsToOrder requests on one order overlap and both succeed,
\* the order holds its earlier lines followed by both batches and its
\* totalAmount is the earlier total plus the subtotals of both batches.
C17_NoLostAddOn ==
    (/\ BothDone
     /\ \A p \in Handlers : inflight[p].req.op = "addItemsToOrder" /\ inflight[p].res = ResOK
     /\ inflight[1].req.id = inflight[2].req.id)
        => LET n1 == Named(inflight[1].req.body.items)
               n2 == Named(inflight[2].req.body.items)
               after == orders[inflight[1].req.id]
           IN  /\ after.items \in {RaceBase.items \o n1 \o n2, RaceBase.items \o n2 \o n1}
               /\ after.totalAmount = RaceBase.totalAmount
                                      + LineSum(inflight[1].req.body.items)
                                      + LineSum(inflight[2].req.body.items)

\* C17 for the lines alone: both batches are in the order
C17_BothBatchesKept ==
    (/\ BothDone
     /\ \A p \in Handlers : inflight[p].req.op = "addItemsToOrder" /\ inflight[p].res = ResOK
     /\ inflight[1].req.id = inflight[2].req.id)
        => orders[inflight[1].req.id].items
             \in {RaceBase.items \o Named(inflight[1].req.body.items)
                                 \o Named(inflight[2].req.body.items),
                  RaceBase.items \o Named(inflight[2].req.body.items)
                                 \o Named(inflight[1].req.body.items)}

\* an add-on of lines to the order b, run alone
AddOnTo(b, lines) ==
    IF b.status \in {"Billed", "Completed"} THEN b
    ELSE [b EXCEPT !.items = @ \o Named(lines),
                   !.totalAmount = @ + LineSum(lines),
                   !.status = IF @ \in {"Kitchen", "Pending"} THEN @ ELSE "Kitchen"]

\* a status request of a caller of the given role on the order b, run alone
StatusTo(b, role, status) ==
    IF ~MatrixAllows(role, status) THEN b
    ELSE IF b.status = "Completed" /\ role # "Vendor" THEN b
    ELSE [b EXCEPT !.status = status]

SameOrder(x, y) ==
    x.items = y.items /\ x.totalAmount = y.totalAmount /\ x.status = y.status

\* C18: when an addItemsToOrder and an updateStatus request on one order overlap,
\* the order is afterwards what running the two requests one after the other, in
\* one of the two orders, makes of it.
C18_SerialOutcome ==
    (/\ BothDone
     /\ inflight[1].req.op = "addItemsToOrder"
     /\ inflight[2].req.op = "updateStatus"
     /\ inflight[1].req.id = inflight[2].req.id)
        => LET lines == inflight[1].req.body.items
               role == inflight[2].req.user.role
               status == inflight[2].req.newStatus
               after == orders[inflight[1].req.id]
           IN  \/ SameOrder(after, StatusTo(AddOnTo(RaceBase, lines), role, status))
               \/ SameOrder(after, AddOnTo(StatusTo(RaceBase, role, status), lines))

\* the orders of a vendor whose status is one of the given ones
OrdersIn(vendorId, statuses) ==
    { i \in 1..Len(orders) : orders[i].vendorId = vendorId /\ orders[i].status \in statuses }

\* q lists S, each member once, the order created earlier first
OldestFirst(q, S) ==
    /\ Range(q) = S
    /\ \A k, l \in 1..Len(q) : k < l => q[k] < q[l]

\* q lists each member once, the smaller table number first and, at one table,
\* the order created earlier first
ByTableThenCreation(q) ==
    \A k, l \in 1..Len(q) : k < l =>
        \/ orders[q[k]].tableNumber < orders[q[l]].tableNumber
        \/ orders[q[k]].tableNumber = orders[q[l]].tableNumber /\ q[k] < q[l]

\* C19: the kitchen queue answered to a caller of vendor V lists exactly the
\* orders of V that are Pending or Kitchen, oldest first; and in every state,
\* so also right after a status change or an add-on was written, the query
\* gives a caller of either vendor that list for the orders as they are then.
C19_KitchenQueue ==
    /\ resp.req.op = "getKitchenOrders" =>
         OldestFirst(resp.out, OrdersIn(resp.req.user.vendorId, {"Pending", "Kitchen"}))
    /\ \A user \in {KitchenA, ServerB} :
         OldestFirst(getKitchenOrders(user), OrdersIn(user.vendorId, {"Pending", "Kitchen"}))

\* C19 witness: the queue lists two orders of the shop, the first at table 5
\* before the second at table 3 that the owner had set back to Pending.
C19_Witness ==
    /\ resp.req.op = "getKitchenOrders"
    /\ resp.out = <<1, 2>>
    /\ orders[1].tableNumber > orders[2].tableNumber
    /\ orders[2].status = "Pending"

\* C20: the billing queue answered to a caller of vendor V lists orders of V
\* only, every Ready and every Served one, no Billed, Pending or Kitchen one,
\* Completed ones in the queue of vendorStaffController.js (all of them) and not
\* in that of orderController.js, by table number and then creation time; and
\* in every state the queries give a caller of either vendor such a list.
C20_BillingQueue ==
    /\ resp.req.op = "getBillingOrders" =>
         /\ Range(resp.out) = OrdersIn(resp.req.user.vendorId, {"Ready", "Served", "Completed"})
         /\ ByTableThenCreation(resp.out)
    /\ resp.req.op = "OC_getBillingOrders" =>
         /\ Range(resp.out) = OrdersIn(resp.req.user.vendorId, {"Ready", "Served"})
         /\ ByTableThenCreation(resp.out)
    /\ \A user \in {KitchenA, ServerB} :
         /\ Range(getBillingOrders(user))
               = OrdersIn(user.vendorId, {"Ready", "Served", "Completed"})
         /\ ByTableThenCreation(getBillingOrders(user))
         /\ Range(OC_getBillingOrders(user)) = OrdersIn(user.vendorId, {"Ready", "Served"})
         /\ ByTableThenCreation(OC_getBillingOrders(user))

\* C20 witness: the queue lists the Served order at table 3 before the Ready
\* order at table 5 that was created first.
C20_Witness ==
    /\ resp.req.op \in {"getBillingOrders", "OC_getBillingOrders"}
    /\ resp.out = <<2, 1>>
    /\ orders[1].status = "Ready" /\ orders[1].tableNumber = 5
    /\ orders[2].status = "Served" /\ orders[2].tableNumber = 3

(***************************************************************************)
(* C21: the reporting query.                                               *)
(***************************************************************************)
\* the orders of a shop the report is about, as the request found them
Reportable(vendorId) ==
    { i \in 1..Len(resp.before) :
        /\ resp.before[i].vendorId = vendorId
        /\ resp.before[i].status \in {"Billed", "Completed"} }

\* a report request that carries a range: both parameters are dates
RangeGiven ==
    /\ resp.req.op = "getCompletedOrders"
    /\ resp.query.startDate \notin {NoDate, InvalidDate}
    /\ resp.query.endDate \notin {NoDate, InvalidDate}

\* the last instant of the day an instant lies in
LastOfDay(t) == CHOOSE u \in t..(t + TicksPerDay - 1) : u % TicksPerDay = 0

RECURSIVE SalesOf(_)
\* the sum of totalAmount over a set of orders the request found
SalesOf(S) ==
    IF S = {} THEN 0
    ELSE LET i == CHOOSE j \in S : TRUE
         IN  resp.before[i].totalAmount + SalesOf(S \ {i})

\* the response lists exactly the orders of S, newest-updated first, with their
\* number and the sum of their totals in hundredths
ReportsExactly(S) ==
    /\ Range(resp.out) = S
    /\ Len(resp.out) = Cardinality(S)
    /\ \A i, j \in 1..Len(resp.out) :
          i < j => resp.before[resp.out[i]].updatedAt > resp.before[resp.out[j]].updatedAt
    /\ resp.count = Len(resp.out)
    /\ resp.totalSales = 100 * SalesOf(S)

Identity(o) == [vendorId |-> o.vendorId, tableNumber |-> o.tableNumber, server |-> o.server]

\* C22: no step removes an order or changes the id, vendorId, tableNumber or
\* server of a stored order; the ids in use only grow.
C22_IdentityKept ==
    [][ /\ Len(orders') >= Len(orders)
        /\ \A i \in 1..Len(orders) : Identity(orders'[i]) = Identity(orders[i]) ]_vars

\* an order changed by a request, with its identity as the request found it
C22_Witness ==
    /\ resp.req.op \in {"addItemsToOrder", "updateStatus", "OC_updateStatus"}
    /\ resp.res = ResOK
    /\ TargetNow # TargetBefore
    /\ Identity(TargetNow) = Identity(TargetBefore)

(***************************************************************************)
(* C23: who makes an order Pending.                                        *)
(***************************************************************************)
\* order i is Pending after the step and was not (or did not exist) before it
BecomesPending(i) ==
    /\ orders'[i].status = "Pending"
    /\ i \in 1..Len(orders) => orders[i].status # "Pending"

\* C23: an order becomes Pending only in the step of a successful updateStatus
\* on it that a Vendor sent with the new status Pending; no created order is
\* Pending, no add-on and no other role makes an order Pending.
C23_PendingByOwnerOnly ==
    [][ \A i \in 1..Len(orders') :
          BecomesPending(i) =>
              /\ resp'.req.op \in StatusOps
              /\ resp'.req.id = i
              /\ resp'.req.user.role = "Vendor"
              /\ resp'.req.newStatus = "Pending"
              /\ resp'.res = ResOK ]_vars

\* an order the owner set back to Pending, still Pending after an add-on
C23_Witness ==
    /\ resp.req.op = "addItemsToOrder"
    /\ resp.res = ResOK
    /\ TargetBefore.status = "Pending"
    /\ TargetNow.status = "Pending"
    /\ Len(TargetNow.items) > Len(TargetBefore.items)

(***************************************************************************)
(* C24: the names of the lines.                                            *)
(***************************************************************************)
\* line k of order i is in the collection before the step
StoredLine(i, k) == i \in 1..Len(orders) /\ k \in 1..Len(orders[i].items)

\* C24: a line a step adds carries the name the catalog holds for its menu item
\* in that step, whatever name the request gave it; a line already stored keeps
\* its name and its menu item in every step, an add-on and a rename of the menu
\* item included.
C24_NameAtOrderTime ==
    [][ \A i \in 1..Len(orders') : \A k \in 1..Len(orders'[i].items) :
          IF StoredLine(i, k)
          THEN /\ orders'[i].items[k].name = orders[i].items[k].name
               /\ orders'[i].items[k].menuItemId = orders[i].items[k].menuItemId
          ELSE orders'[i].items[k].name = menu[orders'[i].items[k].menuItemId].name ]_vars

\* after dish A was renamed, its line keeps the old name next to a line of dish B
\* that an add-on sent under the name Free
C24_Witness ==
    /\ resp.req.op = "addItemsToOrder"
    /\ resp.res = ResOK
    /\ resp.req.body.items = <<LineB>>
    /\ menu["dishA"].name = "Aloo"
    /\ TargetNow.items[1].menuItemId = "dishA" /\ TargetNow.items[1].name = "Alu"
    /\ TargetNow.items[2].menuItemId = "dishB" /\ TargetNow.items[2].name = "Bun"

(***************************************************************************)
(* C25: what writes totalAmount.                                           *)
(***************************************************************************)
\* an order without its status and its time of writing
Unstamped(o) == [o EXCEPT !.status = "", !.updatedAt = 0]

\* C25: in every step, the totalAmount of every order is at least 0; a new order's
\* totalAmount is the sum over its lines of quantity * catalog price, whatever
\* the request carried; the totalAmount of a stored order changes only in the
\* step of a successful addItemsToOrder on it, by that sum over the new lines;
\* and the step of a successful updateStatus changes no field of any order but
\* the status (and time of writing).
C25_TotalAmountWrites ==
    [][ /\ \A i \in 1..Len(orders') : orders'[i].totalAmount >= 0
        /\ \A i \in (Len(orders) + 1)..Len(orders') :
              orders'[i].totalAmount = LineSum(orders'[i].items)
        /\ \A i \in 1..Len(orders) :
              orders'[i].totalAmount # orders[i].totalAmount =>
                  /\ resp'.req.op = "addItemsToOrder"
                  /\ resp'.req.id = i
                  /\ resp'.res = ResOK
                  /\ orders'[i].totalAmount =
                        orders[i].totalAmount + LineSum(resp'.req.body.items)
        /\ (resp'.req.op \in StatusOps /\ resp'.res = ResOK) =>
              /\ Len(orders') = Len(orders)
              /\ \A i \in 1..Len(orders) : Unstamped(orders'[i]) = Unstamped(orders[i]) ]_vars

\* a status change on an order of two lines, whose total is that of both lines
\* before and after
C25_Witness ==
    /\ resp.req.op = "updateStatus"
    /\ resp.res = ResOK
    /\ TargetNow.status # TargetBefore.status
    /\ Len(TargetNow.items) = 2
    /\ TargetNow.totalAmount = TargetBefore.totalAmount
    /\ TargetNow.totalAmount > unitPriceAtOrderTime[resp.req.id][1] * TargetNow.items[1].quantity

(***************************************************************************)
(* C26: one response to every request.                                     *)
(***************************************************************************)
OrderOps ==
    {"createOrder", "addItemsToOrder", "getOrderById"} \cup StatusOps \cup ListOps

\* C26 as stated: a request to an order operation is answered by a result or by
\* one of InvalidInput, InvalidReference, NotFound, Forbidden, InvalidState or a
\* server error, and the orders are as the request found them unless it is
\* answered by a result.
C26_OneResponse ==
    resp.req.op \in OrderOps =>
        /\ Kind(resp.res) \in {"Success", "InvalidInput", "InvalidReference", "NotFound",
                                "Forbidden", "InvalidState", "ServerError"}
        /\ Kind(resp.res) # "Success" => orders = resp.before

(***************************************************************************)
(* C27: totals of prices with a fraction.                                  *)
(***************************************************************************)
\* the price of a dish in hundredths, as it was entered
Hundredths(m) == CHOOSE c \in DecimalPrices : parseFloat(c) = menu[m].price

RECURSIVE DecimalSum(_)
\* the exact sum over the lines of quantity * price, in hundredths
DecimalSum(lines) ==
    IF lines = <<>> THEN 0
    ELSE Head(lines).quantity * Hundredths(Head(lines).menuItemId) + DecimalSum(Tail(lines))

\* C27 as stated: the totalAmount of every stored order is the exact decimal sum
\* over its lines of quantity * price, that is, the Number that decimal denotes.
C27_ExactDecimalTotal ==
    \A i \in 1..Len(orders) : orders[i].totalAmount = parseFloat(DecimalSum(orders[i].items))

(***************************************************************************)
(* C28: the order of the checks of addItemsToOrder.                        *)
(***************************************************************************)
\* C28: an add-on request is answered by the first check it fails, the checks
\* taken in this order: a batch that is empty or has a line without menuItemId,
\* with a quantity of 0 or less or without itemTableNumber is InvalidInput,
\* whatever order is named; else an order that is not one of the caller's vendor
\* is NotFound; else an order that is Billed or Completed is InvalidState,
\* whatever menu ids the batch names; else a batch with an id that is no dish of
\* the vendor is InvalidReference.
C28_AddOnCheckOrder ==
    resp.req.op = "addItemsToOrder" =>
        Kind(resp.res) =
            IF ~WellFormed(resp.req.body.items) THEN "InvalidInput"
            ELSE IF ~TargetInScope THEN "NotFound"
            ELSE IF TargetBefore.status \in {"Billed", "Completed"} THEN "InvalidState"
            ELSE IF Unresolvable(resp.req.body.items, resp.req.user.vendorId)
            THEN "InvalidReference"
            ELSE Kind(resp.res)

\* a well-formed batch naming an id of no dish of the vendor, sent for a Billed
\* order of the vendor and answered InvalidState
C28_Witness ==
    /\ resp.req.op = "addItemsToOrder"
    /\ WellFormed(resp.req.body.items)
    /\ TargetInScope
    /\ TargetBefore.status = "Billed"
    /\ Unresolvable(resp.req.body.items, resp.req.user.vendorId)
    /\ Kind(resp.res) = "InvalidState"

(***************************************************************************)
(* C29: a Billed or Completed order keeps its lines and its total.         *)
(***************************************************************************)
Closed(status) == status \in {"Billed", "Completed"}

\* C29: no step of any request by any caller changes the items or the
\* totalAmount of an order that is Billed or Completed before the step, and such
\* an order leaves Billed and Completed only in the step of a successful
\* updateStatus on it with the new status Pending, Kitchen, Ready or Served; so
\* its items and totalAmount change only after such an updateStatus.
C29_ClosedOrderFrozen ==
    [][ \A i \in 1..Len(orders) :
          Closed(orders[i].status) =>
              /\ Len(orders') >= i
              /\ orders'[i].items = orders[i].items
              /\ orders'[i].totalAmount = orders[i].totalAmount
              /\ ~Closed(orders'[i].status) =>
                    /\ resp'.req.op \in StatusOps
                    /\ resp'.req.id = i
                    /\ resp'.res = ResOK
                    /\ resp'.req.newStatus \in {"Pending", "Kitchen", "Ready", "Served"}
                    /\ orders'[i].status = resp'.req.newStatus ]_vars

\* a Completed order that an updateStatus has just moved back to Served, with the
\* lines and the total it had
C29_Witness ==
    /\ resp.req.op \in StatusOps
    /\ resp.res = ResOK
    /\ TargetBefore.status = "Completed"
    /\ TargetNow.status = "Served"
    /\ TargetNow.items = TargetBefore.items
    /\ TargetNow.items # <<>>
    /\ TargetNow.totalAmount = TargetBefore.totalAmount

(***************************************************************************)
(* C30: the gate of the routes.                                            *)
(***************************************************************************)
\* the role list a gate was configured with
Configured(gate) == IF gate.isArray THEN Range(gate.many) ELSE {gate.one} \ {""}

\* the token names a role outside the role list of one of the gates
RoleOutside(token, gates) ==
    \E i \in 1..Len(gates) :
        Configured(gates[i]) # {} /\ token.user.role \notin Configured(gates[i])

NothingChanged == orders = resp.before /\ menu = resp.menuBefore

\* C30: the handler of a route is invoked only for a request whose token verifies
\* and names a role in the role list of every gate configured with one; a request
\* without a token or with a token that does not verify is answered 401, one
\* whose role is outside a list is answered 403, and in both cases the handler
\* is not invoked and orders and menu are as before; a gate configured without
\* roles lets every request with a verified token pass.
C30_AuthGate ==
    resp.req.op # "none" =>
        /\ resp.invoked <=> (resp.token.kind = "signed" /\ ~RoleOutside(resp.token, resp.gates))
        /\ resp.token.kind # "signed"
              => resp.res.status = 401 /\ ~resp.invoked /\ NothingChanged
        /\ (resp.token.kind = "signed" /\ RoleOutside(resp.token, resp.gates))
              => resp.res.status = 403 /\ ~resp.invoked /\ NothingChanged
        /\ (resp.token.kind = "signed" /\ Configured(resp.gates[1]) = {})
              => resp.passed >= 1

\* the token of a Manager on PUT /api/menu/:id: let through by auth(), refused
\* with 403 by auth(['Vendor', 'Kitchen']), the handler not invoked
C30_Witness ==
    /\ resp.req.op = "updateMenuItem"
    /\ resp.token.kind = "signed"
    /\ resp.token.user.role = "Manager"
    /\ resp.passed = 1
    /\ resp.res = ResAccessDenied
    /\ ~resp.invoked
    /\ NothingChanged

(***************************************************************************)
(* C31: who may add items.                                                 *)
(***************************************************************************)
\* C31: a PUT /:id/items request with the token of a Kitchen or Billing user is
\* answered 403 by the gate of the route, addItemsToOrder is not invoked and
\* every order is as it was; a request after which an order differs carried the
\* token of a Server or a Vendor.
C31_AddOnGate ==
    resp.req.op = "addItemsToOrder" =>
        /\ (resp.token.kind = "signed" /\ resp.token.user.role \in {"Kitchen", "Billing"})
              => /\ resp.res = ResAccessDenied
                 /\ ~resp.invoked
                 /\ orders = resp.before
        /\ orders # resp.before
              => resp.token.kind = "signed" /\ resp.token.user.role \in {"Server", "Vendor"}

\* the token of the kitchen of vendor A on PUT /1/items, order 1 an open order of
\* vendor A: refused with 403, the order as it was
C31_Witness ==
    /\ resp.req.op = "addItemsToOrder"
    /\ resp.token = Signed(KitchenA)
    /\ resp.req.id \in 1..Len(resp.before)
    /\ TargetBefore.vendorId = VendorA
    /\ TargetBefore.status = "Kitchen"
    /\ resp.res.status = 403
    /\ ~resp.invoked
    /\ TargetNow = TargetBefore

(***************************************************************************)
(* C32: static routes before the id route.                                 *)
(***************************************************************************)
\* the handler the claim names for a static path
StaticHandlers(name) ==
    CASE name = "kitchen" -> {"getKitchenOrders"}
      [] name = "billing" -> {"getBillingOrders", "OC_getBillingOrders"}
      [] name = "completed" -> {"getCompletedOrders"}

\* C32: a GET request for /kitchen, /billing or /completed is taken by the route
\* of that name and never by /:id with the name as order id; the handler run for
\* GET /completed with the token of a Vendor or Billing user is
\* getCompletedOrders.
C32_StaticBeforeId ==
    ("path" \in DOMAIN resp /\ resp.path.name # "") =>
        /\ resp.route = resp.path.name
        /\ resp.req.op \in StaticHandlers(resp.path.name)
        /\ (/\ resp.path.name = "completed"
            /\ resp.token.kind = "signed"
            /\ resp.token.user.role \in {"Vendor", "Billing"})
              => resp.invoked /\ resp.req.op = "getCompletedOrders"

\* the same under the router that registers /completed (lines 52-119)
C32_StaticBeforeId_VendorStaff == deployed = VendorStaff => C32_StaticBeforeId

(***************************************************************************)
(* C33: approval before the first token.                                   *)
(***************************************************************************)
StaffRoles == {"Server", "Kitchen", "Billing"}

\* the response of the step carries a token
TokenIssued == "token" \in DOMAIN resp' /\ resp'.token.kind = "signed"

\* C33: in every step, an account that is created is approved exactly if it is a
\* Vendor account, and register answers it with a token exactly then; an
\* approved account stays approved; an account becomes approved only by a
\* successful approveStaff on it; and a token for a staff account is issued only
\* by login and only while the account is approved.  So a staff account gets
\* no token before an approveStaff on it succeeded.
C33_ApprovalBeforeToken ==
    [][ /\ \A i \in 1..Len(accounts') :
              IF i > Len(accounts)
              THEN /\ accounts'[i].isApproved <=> accounts'[i].role = "Vendor"
                   /\ accounts'[i].role \in StaffRoles \cup {"Vendor"}
                   /\ resp'.req.op = "register"
                   /\ TokenIssued <=> accounts'[i].role = "Vendor"
                   /\ TokenIssued => resp'.token.user.id = i
              ELSE /\ accounts[i].isApproved => accounts'[i].isApproved
                   /\ (~accounts[i].isApproved /\ accounts'[i].isApproved)
                         => /\ resp'.req.op = "approveStaff"
                            /\ resp'.req.id = i
                            /\ resp'.res = ResOK
        /\ (TokenIssued /\ resp'.token.user.role # "Vendor")
              => /\ resp'.req.op = "login"
                 /\ resp'.token.user.id \in 1..Len(accounts)
                 /\ accounts[resp'.token.user.id].isApproved
                 /\ accounts[resp'.token.user.id].role = resp'.token.user.role ]_vars

\* a Server account that was approved has logged in and holds a token
C33_Witness ==
    /\ resp.req.op = "login"
    /\ resp.token.kind = "signed"
    /\ resp.token.user.role = "Server"
    /\ accounts[resp.token.user.id].isApproved
    /\ resp.res = ResOK

(***************************************************************************)
(* C34: whom a Vendor may approve or delete.                               *)
(***************************************************************************)
StaffOps == {"approveStaff", "deleteStaff"}

\* the account the request names existed, was no Vendor account and belonged to
\* the caller's shop
OwnStaffTarget ==
    /\ resp.req.id \in 1..Len(resp.before)
    /\ ~resp.before[resp.req.id].deleted
    /\ resp.before[resp.req.id].role # "Vendor"
    /\ resp.before[resp.req.id].vendorId = resp.req.user.vendorId

\* C34: approveStaff and deleteStaff run for a Vendor answer 404 and leave every
\* account as it was unless the target exists, is no Vendor account and belongs
\* to the caller's shop; approveStaff on such an account that is approved
\* answers 400 and changes nothing; otherwise only the target changes.
C34_OwnStaffOnly ==
    (resp.req.op \in StaffOps /\ resp.req.user.role = "Vendor") =>
        IF ~OwnStaffTarget
        THEN resp.res.status = 404 /\ accounts = resp.before
        ELSE IF resp.req.op = "approveStaff" /\ resp.before[resp.req.id].isApproved
        THEN resp.res.status = 400 /\ accounts = resp.before
        ELSE /\ resp.res = ResOK
             /\ \A i \in 1..Len(accounts) : i # resp.req.id => accounts[i] = resp.before[i]

\* the same for requests whose id is an ObjectId
C34_OwnStaffOnly_ObjectIds == resp.req.id # BadId => C34_OwnStaffOnly

\* the owner of one shop asked to approve or delete the staff of another and was
\* answered 404
C34_CrossShopRefused ==
    /\ resp.req.op \in StaffOps
    /\ resp.req.user.role = "Vendor"
    /\ resp.req.id \in 1..Len(resp.before)
    /\ resp.before[resp.req.id].role = "Server"
    /\ ~resp.before[resp.req.id].deleted
    /\ resp.before[resp.req.id].vendorId # resp.req.user.vendorId
    /\ resp.res.status = 404

(***************************************************************************)
(* The catalogs of two shops, read and edited by callers of either.        *)
(***************************************************************************)
OwnerB == [id |-> "ownerB", role |-> "Vendor", vendorId |-> VendorB]

MENU_ACCESS_ROLES == {"Vendor", "Server", "Kitchen", "Billing"}

\* the names of the dishes in the order .sort({ name: 1 }) puts them
MenuNames == <<"Aloo", "Alu", "Bun", "Chai">>
nameRank(name) == CHOOSE i \in 1..Len(MenuNames) : MenuNames[i] = name

\* .sort({ category: 1, name: 1 }) of dishes of one category
RECURSIVE sortByName(_)
sortByName(ids) ==
    IF ids = {}
    THEN <<>>
    ELSE LET first == CHOOSE m \in ids :
                          \A n \in ids : nameRank(menu[m].name) <= nameRank(menu[n].name)
         IN  <<first>> \o sortByName(ids \ {first})

\* MenuItem.find({ vendorId }).sort({ category: 1, name: 1 }); items holds the
\* _id of each dish returned
getMenuItems(user) ==
    LET accessCheck == checkMenuAccess(user, MENU_ACCESS_ROLES)
    IN  IF accessCheck # ResOK
        THEN [res |-> accessCheck, items |-> <<>>]
        ELSE [res |-> ResOK,
              items |-> sortByName({ m \in DOMAIN menu : menu[m].vendorId = user.vendorId })]

\* req.params.id of the menu routes: "" is a string that is no ObjectId
MenuIds == {"", "dishA", "dishC", "dishD"}
MenuCallers == {OwnerA, KitchenA, OwnerB, ServerB}

\* a request of the menu routes that carries no update
NoUpdate == MenuUpdate({}, 0, TRUE, "")

\* The response of a menu handler, with the catalog as the request found it;
\* req.newStatus carries req.params.id, updates the body of a PUT.
MenuHandled(op, user, id, updates, res, out) ==
    [req |-> Request(op, user, 0, id, NoBody), before |-> orders, res |-> res, out |-> out,
     updates |-> updates, menuBefore |-> menu]

\* GET /api/menu
GetMenu ==
    /\ resp = Idle
    /\ \E user \in MenuCallers :
        LET r == getMenuItems(user)
        IN  /\ resp' = MenuHandled("getMenuItems", user, "", NoUpdate, r.res, r.items)
            /\ UNCHANGED <<deployed, accounts, orders, menu, unitPriceAtOrderTime, inflight>>

\* PUT /api/menu/:id
PutMenu ==
    /\ resp = Idle
    /\ \E user \in MenuCallers, id \in MenuIds, updates \in MenuUpdates :
        LET r == updateMenuItem(user, id, updates)
        IN  /\ menu' = r.menu
            /\ resp' = MenuHandled("updateMenuItem", user, id, updates, r.res, <<>>)
            /\ UNCHANGED <<deployed, accounts, orders, unitPriceAtOrderTime, inflight>>

\* DELETE /api/menu/:id
DeleteMenu ==
    /\ resp = Idle
    /\ \E user \in MenuCallers, id \in MenuIds :
        LET r == deleteMenuItem(user, id)
        IN  /\ menu' = r.menu
            /\ resp' = MenuHandled("deleteMenuItem", user, id, NoUpdate, r.res, <<>>)
            /\ UNCHANGED <<deployed, accounts, orders, unitPriceAtOrderTime, inflight>>

MenuNext ==
    \/ GetMenu
    \/ PutMenu
    \/ DeleteMenu
    \/ Send

SpecMenu == CatalogInit /\ [][MenuNext]_vars

MenuOps == {"updateMenuItem", "deleteMenuItem"}

\* the request is a mutation of a dish of another shop than the caller's
ForeignDish ==
    /\ resp.req.op \in MenuOps
    /\ resp.req.newStatus \in DOMAIN resp.menuBefore
    /\ resp.menuBefore[resp.req.newStatus].vendorId # resp.req.user.vendorId

\* the caller holds a role that manages menus and, being staff, is approved
MayManageMenu(user) ==
    /\ user.role \in {"Vendor", "Kitchen"}
    /\ user.role = "Vendor" \/ isApproved(user)

\* C35: updateMenuItem and deleteMenuItem on a dish of another shop change no
\* dish and never succeed; from a caller who may manage menus, with an update
\* the schema accepts, the answer is 404.  getMenuItems returns the dishes of
\* the caller's shop, all of them and no other.
C35_MenuTenantScoped ==
    /\ ForeignDish =>
          /\ menu = resp.menuBefore
          /\ resp.res.status \in {400, 403, 404}
          /\ (MayManageMenu(resp.req.user) /\ resp.updates.price >= 0)
                => resp.res.status = 404
    /\ (resp.req.op = "getMenuItems" /\ resp.res = ResOK) =>
          /\ \A i \in 1..Len(resp.out) :
                resp.menuBefore[resp.out[i]].vendorId = resp.req.user.vendorId
          /\ { resp.out[i] : i \in 1..Len(resp.out) } =
                { m \in DOMAIN resp.menuBefore :
                      resp.menuBefore[m].vendorId = resp.req.user.vendorId }

\* the owner of shop B sent an acceptable update for a dish of shop A
C35_Witness ==
    /\ ForeignDish
    /\ resp.req.op = "updateMenuItem"
    /\ resp.req.user = OwnerB
    /\ resp.req.newStatus = "dishA"
    /\ resp.res.status = 404

\* the owner of shop B asked for the deletion of a dish of shop A
C35_DeleteRefused ==
    /\ ForeignDish
    /\ resp.req.op = "deleteMenuItem"
    /\ resp.req.user = OwnerB
    /\ resp.res.status = 404

\* shop A's catalog listed after shop B's owner renamed its own dish
C35_ListedOwnOnly ==
    /\ resp.req.op = "getMenuItems"
    /\ resp.req.user = OwnerA
    /\ resp.out = <<"dishA", "dishB">>
    /\ menu["dishC"].name = "Aloo"

\* a caller of the shop an order belongs to
CallerOf(vendorId) == [id |-> "", role |-> "Vendor", vendorId |-> vendorId]

\* the orders the three list queries return to a caller
Listed(user) ==
    [kitchen |-> Range(getKitchenOrders(user)),
     billing |-> Range(getBillingOrders(user)),
     completed |-> Range(getCompletedOrders(user, NoDate, NoDate).orders)]

\* C36: in every state every stored order is returned to its shop by the
\* kitchen queue if Pending or Kitchen, by the billing queue if Ready or
\* Served, and by the reporting query without a date range if Billed or
\* Completed; its status is one of these six.
C36_NoInvisibleOrder ==
    \A i \in 1..Len(orders) :
        LET l == Listed(CallerOf(orders[i].vendorId))
        IN  /\ orders[i].status \in Statuses
            /\ orders[i].status \in {"Pending", "Kitchen"} => i \in l.kitchen
            /\ orders[i].status \in {"Ready", "Served"} => i \in l.billing
            /\ orders[i].status \in {"Billed", "Completed"} => i \in l.completed
            /\ i \in l.kitchen \cup l.billing \cup l.completed

\* the report answered to the owner of shop A lists a Billed order that neither
\* queue lists, while the other order of the shop is in the kitchen queue
C36_Witness ==
    /\ resp.req.op = "getCompletedOrders"
    /\ resp.res = ResOK
    /\ \E i \in Range(resp.out) :
          /\ orders[i].status = "Billed"
          /\ i \notin Listed(OwnerA).kitchen \cup Listed(OwnerA).billing
    /\ \E j \in Listed(OwnerA).kitchen : orders[j].vendorId = VendorA

(***************************************************************************)
(* C37: an order only grows.                                               *)
(***************************************************************************)
\* the lines a are the first lines of b, in the same order and unedited
StartsWith(b, a) == Len(a) <= Len(b) /\ \A k \in 1..Len(a) : b[k] = a[k]

\* C37: no step of a request removes an order, and in every step the items of
\* each stored order before the step are the first items of the order after it
\* and its totalAmount does not decrease; so along any sequence of requests that
\* do not overlap every earlier items sequence is a prefix of every later one.
C37_OrderOnlyGrows ==
    [][ \A i \in 1..Len(orders) :
          /\ Len(orders') >= i
          /\ StartsWith(orders'[i].items, orders[i].items)
          /\ Len(orders'[i].items) >= Len(orders[i].items)
          /\ orders'[i].totalAmount >= orders[i].totalAmount ]_vars

\* an add-on of a dish whose price was raised since the order was created: the
\* order has its earlier lines first and a larger total
C37_Witness ==
    /\ resp.req.op = "addItemsToOrder"
    /\ resp.res = ResOK
    /\ menu["dishA"].price = 120
    /\ Len(TargetNow.items) > Len(TargetBefore.items)
    /\ StartsWith(TargetNow.items, TargetBefore.items)
    /\ TargetNow.totalAmount > TargetBefore.totalAmount

====
